---- MODULE Spec2Model ----
(***************************************************************************)
(* A model of the native 3D viewer (src/src/native-viewer/main.js): the    *)
(* mesh-record decoder, the geometry reconstructor, the candidate-URL      *)
(* texture resolver with its two promise caches, the scene load            *)
(* (bootstrap / buildScene) and the countertop retexture entry point       *)
(* (applyCountertopTexture).                                               *)
(*                                                                         *)
(* The page is single threaded: one action of the model is one macrotask   *)
(* of the page (an event handler, a network callback, a timer) together    *)
(* with every promise continuation it makes runnable.                      *)
(***************************************************************************)
EXTENDS Integers, Sequences, FiniteSets, TLC

VARIABLES
  decIn,          \* decodeMeshGeometry on its own: the record and the views handed to it
  decOut,         \* ... and what it returned ("pending" before the call)
  chains,         \* every loadTextureFromCandidates promise ever created, in creation order
  sceneTextureCache,     \* runtime.sceneTextureCache: cache key -> index into chains
  externalTextureCache,  \* runtime.externalTextureCache: normalized id -> index into chains
  requests,       \* how many times each cache key was asked for
  pc,             \* where bootstrap / buildScene stands
  input,          \* what the network serves for this scene: mesh table, buffers, config result
  meshProps,      \* the records parseMeshProps returned
  outcomes,       \* per parsed record, in order, what the decode loop did with it
  meshes,         \* worldRoot's meshes, in insertion order
  builtMeshes,
  skippedMeshes,
  materialByIndex,       \* runtime.materialByIndex
  countertop,     \* runtime.countertop*: node ids, meshes (indexes into meshes), material
                  \* indexes, override materials, the harmonized flag
  status,         \* dom.status: the last setStatus
  loadLog,        \* every status bootstrap and buildScene set, in order
  nextRecord,     \* the decode loop's index (1-based) when it yielded
  calls,          \* the applyCountertopTexture calls made so far, in call order
  loads,          \* how many times buildScene was entered
  exterior,       \* the backdrop: runtime.exteriorMode, the sky mesh, scene.environment
                  \* and the two rotations of the scene
  jobs,           \* the promises buildScene is suspended on: the sky texture, or the
                  \* base maps of the materials being built
  image,          \* cropAndFillCountertopTextureImage on its own: the image handed to it
  removals,       \* ... and what each call on that image returned, in call order
  surface,        \* harmonizeCountertopNormals and projectCountertopUvsWorld on their
                  \* own: the meshes handed to them, with their normals and UVs
  passes,         \* ... and how many times harmonizeCountertopNormals ran on them
  selectedSlug,   \* selectedSlug of App: the slug of the selected asset, or NoSlug
  productStatusBySlug,\* productStatusBySlug of App
  productsBySlug, \* productsBySlug of App
  productFetches, \* the runs of the product effect that began a fetch, oldest first
  poolItems,      \* items of worker(items, handler)
  poolIndex,      \* index of worker
  poolResults,    \* results of worker, NoResult where nothing was assigned
  poolCalls,      \* the number of handler calls made for each item
  runners,        \* the runOne calls: where each is, and the item it awaits
  workerState,    \* the promise worker returned: pending, resolved or rejected
  filling,        \* the arrays of a flood fill that is under way
  fillPhase,      \* where that fill is: idle, seeding, looping or done
  fillBackdrop    \* the backdrop estimated for that fill

decodeVars == <<decIn, decOut>>
texVars == <<chains, sceneTextureCache, externalTextureCache, requests>>
loadVars == <<pc, input, meshProps, outcomes, meshes, builtMeshes, skippedMeshes,
              materialByIndex, countertop, status, loadLog, nextRecord, loads,
              exterior, jobs>>
applyVars == <<calls>>
imageVars == <<image, removals>>
geometryVars == <<surface, passes>>
catalogVars == <<selectedSlug, productStatusBySlug, productsBySlug, productFetches>>
poolVars == <<poolItems, poolIndex, poolResults, poolCalls, runners, workerState>>
fillVars == <<filling, fillPhase, fillBackdrop>>
vars == <<decodeVars, texVars, loadVars, applyVars, imageVars, geometryVars, catalogVars, poolVars, fillVars>>

(***************************************************************************)
(* Bounds of the model.                                                    *)
(***************************************************************************)
MaxVertexCnt == 2       \* vertex counts of a record: 1..MaxVertexCnt
MaxFaceCnt == 2         \* face counts of a record: 1..MaxFaceCnt
MaxRawIndex == 3        \* raw values a face buffer holds: 0..MaxRawIndex
VertexBufferWords == 3  \* vertices.buf, in 32-bit words
FaceBufferLen == 6      \* elements of a present face view
UvBufferWords == 2      \* uvs0.buf, in 32-bit words
TransformCount == 1     \* 4x4 matrices in transforms.buf

(***************************************************************************)
(* Program constants.                                                      *)
(***************************************************************************)
MinStride == 21         \* parseMeshProps: the minimal known record layout
LastFieldWord == 20     \* parseMeshProps: the last word of a record the loop needs
HeaderWords == 2        \* parseMeshProps: version and stride precede the records
MatrixFloats == 16      \* decodeMeshGeometry: floats of one transform
Int8Max == 127          \* minBytesToHold: 0x7f
Int16Max == 32767       \* minBytesToHold: 0x7fff
DecodeBatchSize == 40   \* buildScene: meshes built between two yields

Max(a, b) == IF a > b THEN a ELSE b
Abs(a) == IF a < 0 THEN -a ELSE a

(***************************************************************************)
(* Typed views and the geometry reconstructor.                             *)
(*                                                                         *)
(* A view is either NullView (the buffer was empty and no view was made)   *)
(* or a sequence of element values, 1-based here and 0-based in the code.  *)
(* Vertex and UV values are not tracked (no claim depends on them): those  *)
(* views are modelled by their lengths.                                    *)
(***************************************************************************)
NullView == <<-1>>
IsNullView(v) == v = NullView

\* Math.floor(a / b) for b > 0
FloorDiv(a, b) == a \div b

MinBytesToHold(maxValue) ==
  LET absolute == Abs(maxValue)
  IN IF absolute <= Int8Max THEN 1
     ELSE IF absolute <= Int16Max THEN 2
     ELSE 4

\* getFloat32At: TRUE when the subarray exists (the code returns it), FALSE for null
GetFloat32AtOk(floatLength, byteOffset, length) ==
  LET start == FloorDiv(byteOffset, 4)
      end == start + length
  IN ~(start < 0 \/ end > floatLength)

NoGeometry == [kind |-> "null", positions |-> 0, indices |-> <<>>, uv |-> "none"]
Thrown == [kind |-> "throw", positions |-> 0, indices |-> <<>>, uv |-> "none"]

\* the index clamp of the face loop
ClampIndexNoCheck(rawIndex, vertexCnt) == rawIndex
ClampIndex(rawIndex, vertexCnt) == IF rawIndex < vertexCnt THEN rawIndex ELSE 0

\* the vertex range test: TRUE when the record's vertices lie inside the view
VertexRangeOkNoUpper(offset, count, length) == ~(offset < 0)
VertexRangeOk(offset, count, length) == ~(offset < 0 \/ offset + count > length)

\* the face range test
FaceRangeOk(offset, count, length) == ~(offset < 0 \/ offset + count > length)

\* the `if (!faceArray) return null` test
FaceViewMissingIgnored(faceArray) == FALSE
FaceViewMissing(faceArray) == IsNullView(faceArray)

\* the UV block: "none" when no attribute is set, "read" when the values were copied,
\* "zero" when the range test failed and the fresh Float32Array kept its zeros
DecodeUvs(p, v) ==
  IF p.uv0ByteOffset >= 0 /\ ~v.uvsNull
  THEN LET uvElementCount == p.vertexCnt * 2
       IN IF p.quantUv0Max = 0
          THEN IF FloorDiv(p.uv0ByteOffset, 4) + uvElementCount <= v.uvsF32Len
               THEN "read" ELSE "zero"
          ELSE IF FloorDiv(p.uv0ByteOffset, 2) + uvElementCount <= v.uvsU16Len
               THEN "read" ELSE "zero"
  ELSE "none"

DecodeMeshGeometry(p, v) ==
  LET vertexBytes == MinBytesToHold(p.quantVertexMax)
      vertexLength == IF vertexBytes = 1 THEN v.vertices8Len
                      ELSE IF vertexBytes = 2 THEN v.vertices16Len
                      ELSE v.vertices32Len
      vertexElementOffset == IF vertexBytes = 1 THEN p.vertexByteOffset
                             ELSE FloorDiv(p.vertexByteOffset, vertexBytes)
      vertexElementCount == p.vertexCnt * 3
      faceArray == IF p.useFaces16 THEN v.faces16 ELSE v.faces32
      faceElementOffset == FloorDiv(p.faceByteOffset, IF p.useFaces16 THEN 2 ELSE 4)
      faceElementCount == p.faceCnt * 3
  IN IF ~VertexRangeOk(vertexElementOffset, vertexElementCount, vertexLength)
     THEN NoGeometry
     ELSE IF ~GetFloat32AtOk(v.transformsLen, p.transformByteOffset, MatrixFloats)
     THEN NoGeometry
     ELSE IF FaceViewMissing(faceArray)
     THEN NoGeometry
     ELSE IF IsNullView(faceArray)
     THEN Thrown      \* faceArray.length of null: a TypeError
     ELSE IF ~FaceRangeOk(faceElementOffset, faceElementCount, Len(faceArray))
     THEN NoGeometry
     ELSE [kind |-> "geometry",
           positions |-> vertexElementCount,
           \* an element past the end of a typed array reads as undefined, and
           \* `undefined < n` is false: the index becomes 0
           indices |-> [i \in 1..faceElementCount |->
                          IF faceElementOffset + i <= Len(faceArray)
                          THEN ClampIndex(faceArray[faceElementOffset + i], p.vertexCnt)
                          ELSE 0],
           uv |-> DecodeUvs(p, v)]

(***************************************************************************)
(* The inputs of the reconstructor on its own: records as parseMeshProps   *)
(* returns them (positive counts) and views as buildScene makes them.      *)
(***************************************************************************)
FaceContent(a, b) ==
  [i \in 1..FaceBufferLen |-> (a + b * (i - 1)) % (MaxRawIndex + 1)]

FaceContents == {FaceContent(a, b) : a \in 0..MaxRawIndex, b \in {0, 1}}

\* the views buildScene makes of the buffers: a face or UV view is null when its
\* buffer is empty; the three vertex views share vertices.buf
MakeViews(faces16, faces32, uvsPresent) ==
  [faces16 |-> faces16,
   faces32 |-> faces32,
   vertices8Len |-> 4 * VertexBufferWords,
   vertices16Len |-> 2 * VertexBufferWords,
   vertices32Len |-> VertexBufferWords,
   transformsLen |-> MatrixFloats * TransformCount,
   uvsNull |-> ~uvsPresent,
   uvsU16Len |-> IF uvsPresent THEN 2 * UvBufferWords ELSE 0,
   uvsF32Len |-> IF uvsPresent THEN UvBufferWords ELSE 0]

DecodeViews ==
  {MakeViews(f[1], f[2], u) :
     f \in UNION {{<<c, c>>, <<NullView, c>>, <<c, NullView>>} : c \in FaceContents},
     u \in BOOLEAN}

DecodeProps ==
  [nodeId : {1}, materialIdx : {0},
   useFaces16 : BOOLEAN,
   faceByteOffset : {-4, 0, 8},
   faceCnt : 1..MaxFaceCnt,
   vertexByteOffset : {-4, 0, 4},
   vertexCnt : 1..MaxVertexCnt,
   uv0ByteOffset : {-1, 0, 8},
   transformByteOffset : {-4, 0, 4},
   quantVertexMax : {0, 128, 32768},
   quantUv0Max : {0, 1}]

(***************************************************************************)
(* Strings.  An id is a sequence of characters, so that trimming and       *)
(* percent-encoding are computed and not assumed.  File-name extensions    *)
(* and size/quality folders are atoms.                                     *)
(***************************************************************************)
RECURSIVE TrimStart(_)
TrimStart(s) == IF s # <<>> /\ Head(s) = " " THEN TrimStart(Tail(s)) ELSE s

RECURSIVE TrimEnd(_)
TrimEnd(s) ==
  IF s # <<>> /\ s[Len(s)] = " " THEN TrimEnd(SubSeq(s, 1, Len(s) - 1)) ELSE s

\* String(textureId || "").trim()
TrimNone(s) == s
Trim(s) == TrimEnd(TrimStart(s))

\* encodeURIComponent of one character
EncodeChar(c) == IF c = "/" THEN "%2F" ELSE IF c = " " THEN "%20" ELSE c

\* encodeURIComponent
EncodeURIComponent(s) == [i \in 1..Len(s) |-> EncodeChar(s[i])]

\* encodePathSegments: split at "/", encode every part, join with "/"
EncodePathSegments(s) == [i \in 1..Len(s) |-> IF s[i] = "/" THEN "/" ELSE EncodeChar(s[i])]

(***************************************************************************)
(* Candidate lists.  A URL is <<root, size folder, quality folder, encoded *)
(* id, extension>>; two URLs of the model are equal exactly when the       *)
(* strings the code builds are equal.                                      *)
(***************************************************************************)
\* Array.from(new Set(list)): first occurrences, in order
Dedup(list) ==
  LET firsts == {i \in 1..Len(list) : \A j \in 1..(i - 1) : list[j] # list[i]}
  IN [k \in 1..Cardinality(firsts) |->
        list[CHOOSE i \in firsts : Cardinality({j \in firsts : j < i}) = k - 1]]

SceneImgUrl(format, id, ext) == <<"scene/img", format[1], format[2], id, ext>>
SceneRawUrl(id, ext) == <<"scene", "", "", id, ext>>
ExternalUrl(size, id) == <<"scdata/textures", size, "", id, "jpg">>

\* a web format "size/quality" is the pair <<size, quality>>
EndsWithStd(format) == format[2] = "std"

RECURSIVE StdFormatUrls(_, _, _)
StdFormatUrls(formats, id, ext) ==
  IF formats = <<>> THEN <<>>
  ELSE (IF EndsWithStd(Head(formats)) THEN <<SceneImgUrl(Head(formats), id, ext)>> ELSE <<>>)
       \o StdFormatUrls(Tail(formats), id, ext)

\* a definition's webFormats when it is an array, else the empty list
WebFormatsOf(def) == IF def.webFormatsIsArray THEN def.webFormats ELSE <<>>

ExtensionOf(def) ==
  IF def.stdExt # "" THEN def.stdExt ELSE IF def.rawExt # "" THEN def.rawExt ELSE "jpg"

\* the fallbacks that follow the advertised formats
SceneFallbackUrlsNoLarge(id, ext) ==
  <<SceneImgUrl(<<"small", "std">>, id, ext), SceneRawUrl(id, ext)>>
SceneFallbackUrls(id, ext) ==
  <<SceneImgUrl(<<"small", "std">>, id, ext),
    SceneImgUrl(<<"large", "std">>, id, ext),
    SceneRawUrl(id, ext)>>

BuildSceneTextureCandidates(def) ==
  LET id == EncodePathSegments(def.id)
      extension == ExtensionOf(def)
  IN Dedup(StdFormatUrls(WebFormatsOf(def), id, extension)
           \o SceneFallbackUrls(id, extension))

CountertopTextureCandidates(normalized) ==
  LET encoded == EncodeURIComponent(normalized)
  IN <<ExternalUrl("1024", encoded), ExternalUrl("800", encoded),
       ExternalUrl("100", encoded)>>

\* `scene:${id}:${stdExt || ""}:${webFormats.join("|")}`
SceneCacheKey(def) == <<"scene", def.id, def.stdExt, WebFormatsOf(def)>>

(***************************************************************************)
(* loadTextureFromCandidates.  A chain is one promise it returned:         *)
(*   candidates  uniqueCandidates                                          *)
(*   pointer     the closure's pointer                                     *)
(*   inFlight    the candidates (by position) handed to loader.load and    *)
(*               not yet answered                                          *)
(*   attempted   the URLs handed to loader.load, in order                  *)
(*   failed      the positions whose onError ran                           *)
(*   state       "pending" | "resolved"; value: 0 for null, else the       *)
(*               position of the candidate whose texture it resolved with  *)
(***************************************************************************)
\* attempt(): resolve(null) past the end, else load the next candidate
AttemptParallel(ch) ==
  IF ch.pointer >= Len(ch.candidates)
  THEN IF ch.state = "pending" THEN [ch EXCEPT !.state = "resolved", !.value = 0] ELSE ch
  ELSE LET rest == (ch.pointer + 1)..Len(ch.candidates)
       IN [ch EXCEPT !.pointer = Len(ch.candidates),
                     !.inFlight = @ \cup rest,
                     !.attempted = @ \o [i \in 1..(Len(ch.candidates) - ch.pointer) |->
                                           ch.candidates[ch.pointer + i]],
                     !.maxInFlight = Max(@, Cardinality(ch.inFlight \cup rest))]
Attempt(ch) ==
  IF ch.pointer >= Len(ch.candidates)
  THEN IF ch.state = "pending" THEN [ch EXCEPT !.state = "resolved", !.value = 0] ELSE ch
  ELSE [ch EXCEPT !.pointer = @ + 1,
                  !.inFlight = @ \cup {ch.pointer + 1},
                  !.attempted = Append(@, ch.candidates[ch.pointer + 1]),
                  !.maxInFlight = Max(@, Cardinality(ch.inFlight \cup {ch.pointer + 1}))]

LoadTextureFromCandidates(key, candidates) ==
  Attempt([key |-> key, candidates |-> Dedup(candidates), pointer |-> 0,
           inFlight |-> {}, attempted |-> <<>>, failed |-> {},
           state |-> "pending", value |-> 0, maxInFlight |-> 0])

\* the loader's onLoad for candidate k: resolve(texture); a second resolve is ignored
OnLoad(ch, k) ==
  IF ch.state = "pending"
  THEN [ch EXCEPT !.inFlight = @ \ {k}, !.state = "resolved", !.value = k]
  ELSE [ch EXCEPT !.inFlight = @ \ {k}]

\* the loader's onError for candidate k: attempt()
OnError(ch, k) == Attempt([ch EXCEPT !.inFlight = @ \ {k}, !.failed = @ \cup {k}])

\* Map.has on a cache
CacheHasNever(cache, key) == FALSE
CacheHas(cache, key) == key \in DOMAIN cache

CachePut(cache, key, value) ==
  [k \in DOMAIN cache \cup {key} |-> IF k = key THEN value ELSE cache[k]]

Count(f, key) == IF key \in DOMAIN f THEN f[key] ELSE 0

(***************************************************************************)
(* The mesh-record decoder.  A mesh table is its stride word and its       *)
(* records, one per stride words after the two header words.               *)
(***************************************************************************)
StrideSupportedOffByOne(stride) == stride >= MinStride - 1
StrideSupported(stride) == stride >= MinStride

\* Int32Array length of a well-formed meshes.buf
IntsLength(table) == HeaderWords + table.stride * Len(table.records)

\* the records the loop `offset + 20 < ints.length` visits
VisitedRecords(table) ==
  LET visited(k) == HeaderWords + (k - 1) * table.stride + LastFieldWord < IntsLength(table)
  IN SelectSeq([k \in 1..Len(table.records) |-> [k |-> k, r |-> table.records[k]]],
               LAMBDA e : visited(e.k))

\* `if (faceCount <= 0 || vertexCount <= 0) continue`
IsPlaceholderNever(r) == FALSE
IsPlaceholder(r) == r.faceCnt <= 0 \/ r.vertexCnt <= 0

\* parseMeshProps: ok = FALSE when it throws "Unsupported mesh layout stride"
ParseMeshProps(table) ==
  IF ~StrideSupported(table.stride)
  THEN [ok |-> FALSE, props |-> <<>>]
  ELSE LET kept == SelectSeq(VisitedRecords(table), LAMBDA e : ~IsPlaceholder(e.r))
       IN [ok |-> TRUE, props |-> [i \in 1..Len(kept) |-> kept[i].r]]

(***************************************************************************)
(* Status messages: what setStatus last wrote.                             *)
(***************************************************************************)
Status(kind, arg, isError) == [kind |-> kind, arg |-> arg, error |-> isError]

(***************************************************************************)
(* Materials.  A material is an object: its id <<kind, index, load>> names *)
(* the object (the load it was created in tells the objects of two loads   *)
(* apart), the other fields are the properties the viewer sets.  A texture *)
(* is <<"none", 0>>, <<"scene", chain>> (the texture a scene chain         *)
(* resolved with), <<"atlas", chain>> (a clone of it) or                   *)
(* <<"external", chain>>.                                                  *)
(***************************************************************************)
NoTexture == <<"none", 0>>

\* materialConfigFromSceneEntry: the side of a manifest material (doubleSided: the
\* authored flag, or a name of the decorative overlays that are forced double-sided)
MaterialSide(source) == IF source.doubleSided THEN "double" ELSE "front"

\* buildMaterialMap for one index (0-based) whose base map resolved to `texture`: the
\* shared fallback when the manifest has no entry
BuildMaterial(sceneMaterials, index, texture, load) ==
  IF index + 1 \in DOMAIN sceneMaterials
  THEN [id |-> <<"standard", index, load>>,
        type |-> "standard",
        side |-> MaterialSide(sceneMaterials[index + 1]),
        map |-> texture]
  ELSE [id |-> <<"fallback", 0, load>>, type |-> "standard", side |-> "front",
        map |-> NoTexture]

\* usedMaterialIndexes: the indexes >= 0 of the parsed records
UsedMaterialIndexes(props) ==
  {props[i].materialIdx : i \in 1..Len(props)} \cap Nat

(***************************************************************************)
(* The decode loop of buildScene, from record `from` on, until the end of  *)
(* the table, a yield (every DecodeBatchSize built meshes) or an exception.*)
(***************************************************************************)
NewMesh(p, g, materials, position, load) ==
  [nodeId |-> p.nodeId,
   materialIdx |-> p.materialIdx,
   load |-> load,
   material |-> IF p.materialIdx \in DOMAIN materials
                THEN materials[p.materialIdx].id
                ELSE <<"default", position, load>>,
   normals |-> "computed",
   uv |-> g.uv,
   indices |-> g.indices,
   vertexCnt |-> p.vertexCnt]

\* one iteration of the loop, for record `from`
DecodeIteration(props, views, materials, load, from, acc) ==
  LET g == DecodeMeshGeometry(props[from], views)
  IN IF g.kind = "throw"
     THEN [acc EXCEPT !.next = from, !.end = "thrown"]
     ELSE IF g.kind = "null"
     THEN [acc EXCEPT !.skipped = @ + 1,
                      !.outcomes = Append(@, "skipped"),
                      !.next = from + 1]
     ELSE [acc EXCEPT !.built = @ + 1,
                      !.outcomes = Append(@, "built"),
                      !.meshes = Append(@, NewMesh(props[from], g, materials,
                                                   Len(acc.meshes) + 1, load)),
                      !.next = from + 1,
                      !.end = IF (acc.built + 1) % DecodeBatchSize = 0
                              THEN "yielded" ELSE "running"]

RECURSIVE DecodeLoop(_, _, _, _, _, _)
DecodeLoop(props, views, materials, load, from, acc) ==
  IF from > Len(props)
  THEN [acc EXCEPT !.next = from, !.end = "finished"]
  ELSE LET after == DecodeIteration(props, views, materials, load, from, acc)
       IN IF after.end # "running" THEN after
          ELSE DecodeLoop(props, views, materials, load, after.next, after)

(***************************************************************************)
(* The countertop retexture engine.  Everything a handler of the page may  *)
(* change is gathered in a "world" record, so that a handler and the       *)
(* promise continuations it makes runnable are one function of the world.  *)
(***************************************************************************)
World ==
  [calls |-> calls, chains |-> chains, cache |-> externalTextureCache,
   sceneCache |-> sceneTextureCache, requests |-> requests, meshes |-> meshes,
   countertop |-> countertop, materials |-> materialByIndex, status |-> status,
   pc |-> pc, log |-> loadLog, scene |-> input, props |-> meshProps,
   outcomes |-> outcomes, built |-> builtMeshes, skipped |-> skippedMeshes,
   next |-> nextRecord, loads |-> loads, exterior |-> exterior, jobs |-> jobs]

Range(f) == {f[i] : i \in DOMAIN f}

\* loadSceneTexture, up to the promise it returns
LoadSceneTexture(w, def) ==
  LET key == SceneCacheKey(def)
      counted == [w EXCEPT !.requests = CachePut(@, key, Count(w.requests, key) + 1)]
  IN IF CacheHas(w.sceneCache, key)
     THEN [world |-> counted, promise |-> w.sceneCache[key]]
     ELSE [world |-> [counted EXCEPT
                        !.chains = Append(@, LoadTextureFromCandidates(
                                                key, BuildSceneTextureCandidates(def))),
                        !.sceneCache = CachePut(@, key, Len(w.chains) + 1)],
           promise |-> Len(w.chains) + 1]

\* loadCountertopTexture, up to its await; `promise` is the chain the caller awaits
\* (0: the id was empty and null is returned)
LoadCountertopTexture(w, textureId) ==
  LET normalized == Trim(textureId)
      key == <<"external", normalized>>
      counted == [w EXCEPT !.requests = CachePut(@, key, Count(w.requests, key) + 1)]
  IN IF normalized = <<>>
     THEN [world |-> w, promise |-> 0]
     ELSE IF CacheHas(w.cache, key)
     THEN [world |-> counted, promise |-> w.cache[key]]
     ELSE [world |-> [counted EXCEPT
                        !.chains = Append(@, LoadTextureFromCandidates(
                                                key, CountertopTextureCandidates(normalized))),
                        !.cache = CachePut(@, key, Len(w.chains) + 1)],
           promise |-> Len(w.chains) + 1]

\* normalizeCountertopMaterial
NormalizeCountertopMaterialStale(material, texture) ==
  [material EXCEPT !.transparent = FALSE, !.opacity = 1]
NormalizeCountertopMaterial(material, texture) ==
  [material EXCEPT !.map = texture, !.transparent = FALSE, !.opacity = 1]

\* getCountertopOverrideMaterial: the cached override re-bound, or a new
\* MeshBasicMaterial (an unlit material) with the side of the source material
GetCountertopOverrideMaterial(overrides, materials, materialIndex, texture, load) ==
  IF materialIndex \in DOMAIN overrides
  THEN NormalizeCountertopMaterial(overrides[materialIndex], texture)
  ELSE NormalizeCountertopMaterial(
         [id |-> <<"override", materialIndex, load>>,
          type |-> "basic",
          map |-> texture,
          side |-> IF materialIndex \in DOMAIN materials
                   THEN materials[materialIndex].side ELSE "front",
          transparent |-> FALSE,
          opacity |-> 1], texture)

\* harmonizeCountertopNormals on the normals of a mesh: it averages the normals in
\* place, so a second run starts from other normals than the first one did
HarmonizeCountertopNormals(normals) ==
  IF normals = "computed" THEN "harmonized" ELSE "reharmonized"

\* projectCountertopUvsWorld: a fresh UV attribute computed from the positions, the
\* world matrix (neither ever changes) and the normals of the mesh
ProjectCountertopUvsWorld(normals) ==
  IF normals = "harmonized" THEN "projected"
  ELSE IF normals = "computed" THEN "projected-computed"
  ELSE "projected-reharmonized"

\* the `if (!runtime.countertopNormalsHarmonized)` test
HarmonizeAlways(ct) == TRUE
HarmonizeNeeded(ct) == ~ct.harmonized

\* the retexture step of applyCountertopTexture, after the texture arrived
Retexture(w, texture) ==
  LET ct == w.countertop
      targets == Range(ct.meshes)
      indexes == [i \in 1..Len(ct.meshes) |-> w.meshes[ct.meshes[i]].materialIdx]
      used == Range(indexes)
      normalsOf(m) == IF HarmonizeNeeded(ct)
                      THEN HarmonizeCountertopNormals(w.meshes[m].normals)
                      ELSE w.meshes[m].normals
      overrides == [idx \in DOMAIN ct.overrides \cup used |->
                      IF idx \in used
                      THEN GetCountertopOverrideMaterial(
                             ct.overrides, w.materials, idx, texture, w.loads)
                      ELSE ct.overrides[idx]]
  IN [w EXCEPT
        !.meshes = [m \in DOMAIN w.meshes |->
                      IF m \in targets
                      THEN [w.meshes[m] EXCEPT
                              !.normals = normalsOf(m),
                              !.uv = ProjectCountertopUvsWorld(normalsOf(m)),
                              !.material = overrides[w.meshes[m].materialIdx].id]
                      ELSE w.meshes[m]],
        !.countertop = [ct EXCEPT
                          !.harmonized = TRUE,
                          !.materialIndexes = Dedup(indexes),
                          !.overrides = overrides]]

\* setStatus inside call i of applyCountertopTexture: the call's statuses are kept
\* with the call
Report(w, i, st) ==
  [w EXCEPT !.status = st, !.calls[i].reported = Append(@, st.kind)]

\* `setStatus("Applying countertop texture ...")`
ReportLoadingSkipped(w, i) == w
ReportLoading(w, i) == Report(w, i, Status("applying", w.calls[i].normalized, FALSE))

\* what applyCountertopTexture does when its texture is null
ApplyLoadFailedEager(w, i) ==
  [Report(Retexture(w, NoTexture), i,
          Status("could-not-load", w.calls[i].normalized, TRUE)) EXCEPT
     !.calls[i].state = "failed"]
ApplyLoadFailed(w, i) ==
  [Report(w, i, Status("could-not-load", w.calls[i].normalized, TRUE)) EXCEPT
     !.calls[i].state = "failed"]

\* applyCountertopTexture from its await on, for call i, whose promise is resolved
ResumeApply(w, i) ==
  LET call == w.calls[i]
      ch == w.chains[call.chain]
  IN IF ch.value = 0
     THEN ApplyLoadFailed(w, i)
     ELSE [Report(Retexture(w, <<"external", call.chain>>), i,
                  Status("applied", call.normalized, FALSE)) EXCEPT
             !.calls[i].state = "applied"]

\* the continuations a resolved chain makes runnable, in the order they awaited
RECURSIVE ResumeWaiting(_, _, _)
ResumeWaiting(w, c, i) ==
  IF i > Len(w.calls) THEN w
  ELSE IF w.calls[i].state = "waiting" /\ w.calls[i].chain = c
       THEN ResumeWaiting(ResumeApply(w, i), c, i + 1)
       ELSE ResumeWaiting(w, c, i + 1)

\* a call of applyCountertopTexture that just began.  state: "running", then "empty",
\* "no-targets", "waiting" (at its await), "applied" or "failed"; chain: the promise it
\* awaits; immediate: that promise was resolved already when the call awaited it;
\* load: the call of buildScene that was the latest when the call began
NewCall(id, load) ==
  [id |-> id, normalized |-> Trim(id), state |-> "running", chain |-> 0,
   immediate |-> FALSE, reported |-> <<>>, load |-> load]

\* the `if (!runtime.countertopMeshes.length)` test
NoTargetsNever(w) == FALSE
NoTargets(w) == Len(w.countertop.meshes) = 0

\* applyCountertopTexture, with the continuation when the promise is already resolved
ApplyCountertopTexture(w, textureId) ==
  LET normalized == Trim(textureId)
      i == Len(w.calls) + 1
      started == [w EXCEPT !.calls = Append(@, NewCall(textureId, w.loads))]
  IN IF normalized = <<>>
     THEN [Report(started, i, Status("select-first", <<>>, TRUE)) EXCEPT
             !.calls[i].state = "empty"]
     ELSE IF NoTargets(w)
     THEN [Report(started, i, Status("no-targets", <<>>, TRUE)) EXCEPT
             !.calls[i].state = "no-targets"]
     ELSE LET got == LoadCountertopTexture(ReportLoading(started, i), normalized)
              resolved == got.world.chains[got.promise].state = "resolved"
              awaiting == [got.world EXCEPT !.calls[i].state = "waiting",
                                            !.calls[i].chain = got.promise,
                                            !.calls[i].immediate = resolved]
          IN IF resolved THEN ResumeApply(awaiting, i) ELSE awaiting

\* the world a handler left becomes the next state
Commit(w) ==
  /\ calls' = w.calls
  /\ chains' = w.chains
  /\ externalTextureCache' = w.cache
  /\ sceneTextureCache' = w.sceneCache
  /\ requests' = w.requests
  /\ meshes' = w.meshes
  /\ countertop' = w.countertop
  /\ materialByIndex' = w.materials
  /\ status' = w.status
  /\ pc' = w.pc
  /\ loadLog' = w.log
  /\ input' = w.scene
  /\ meshProps' = w.props
  /\ outcomes' = w.outcomes
  /\ builtMeshes' = w.built
  /\ skippedMeshes' = w.skipped
  /\ nextRecord' = w.next
  /\ loads' = w.loads
  /\ exterior' = w.exterior
  /\ jobs' = w.jobs

(***************************************************************************)
(* What the network serves for the scene.                                  *)
(***************************************************************************)
MaxRecords == 3         \* records of a mesh table drawn from the record pool
MaxApplyCalls == 2      \* applyCountertopTexture calls the user makes

\* the face and vertex data of the scenes: raw indexes 1, 2, 3, 0, ... so that with
\* two vertices some raw index is out of range
SceneViews(faces16Present) ==
  MakeViews(IF faces16Present THEN FaceContent(1, 1) ELSE NullView, FaceContent(1, 1), TRUE)

RValid ==
  [nodeId |-> 1, materialIdx |-> 0, useFaces16 |-> FALSE, faceByteOffset |-> 0,
   faceCnt |-> 2, vertexByteOffset |-> 0, vertexCnt |-> 2, uv0ByteOffset |-> 0,
   transformByteOffset |-> 0, quantVertexMax |-> 0, quantUv0Max |-> 1]
RValidB == [RValid EXCEPT !.nodeId = 2, !.materialIdx = 1, !.faceCnt = 1, !.uv0ByteOffset = -1]
RValidC == [RValid EXCEPT !.nodeId = 2, !.materialIdx = 2]
RZeroVertex == [RValid EXCEPT !.vertexCnt = 0]
RNegativeFaces == [RValid EXCEPT !.faceCnt = -1]
RBadVertex == [RValid EXCEPT !.vertexByteOffset = 4 * VertexBufferWords]
RNegativeVertexOffset == [RValid EXCEPT !.vertexByteOffset = -4]
RBadFace == [RValid EXCEPT !.faceByteOffset = 4 * FaceBufferLen]
RBadTransform == [RValid EXCEPT !.transformByteOffset = 4 * MatrixFloats * TransformCount]
RBadUv == [RValid EXCEPT !.uv0ByteOffset = 4 * UvBufferWords]
RFaces16 == [RValid EXCEPT !.useFaces16 = TRUE, !.nodeId = 2]
RNoMaterial == [RValid EXCEPT !.nodeId = 3, !.materialIdx = -1]

SeqsUpTo(S, n) == UNION {[1..k -> S] : k \in 1..n}

Repeat(r, n) == [i \in 1..n |-> r]

\* texture definitions of a manifest
DefPlain ==
  [id |-> <<"a">>, stdExt |-> "jpg", rawExt |-> "", webFormatsIsArray |-> FALSE,
   webFormats |-> <<>>]
DefDuplicate ==
  [id |-> <<"a">>, stdExt |-> "jpg", rawExt |-> "", webFormatsIsArray |-> TRUE,
   webFormats |-> <<<<"small", "std">>, <<"small", "raw">>>>]
DefVariants ==
  [id |-> <<"s", "/", "k">>, stdExt |-> "", rawExt |-> "png", webFormatsIsArray |-> TRUE,
   webFormats |-> <<<<"medium", "std">>, <<"large", "std">>>>]

TextureDefs == {DefPlain, DefDuplicate, DefVariants}

\* a texture reference of a manifest entry: none (no reference, or one without id), a
\* definition of its own, a sub-rectangle of an atlas of the manifest, or of an atlas
\* the manifest does not have
NoRef == [kind |-> "none", def |-> DefPlain]
PlainRef(def) == [kind |-> "plain", def |-> def]
AtlasRef(def) == [kind |-> "atlas", def |-> def]
MissingAtlasRef == [kind |-> "atlas-missing", def |-> DefPlain]

\* firstSky.yawRotation: a number of degrees, or nothing Number() makes finite
NoYaw == [finite |-> FALSE, degrees |-> 0]
Yaw(degrees) == [finite |-> TRUE, degrees |-> degrees]

\* scene.json as the viewer reads it: the first sky, the materials, and whether the
\* three.js build has scene.environmentRotation and scene.backgroundRotation
MakeManifest(skyTexture, yaw, materialTextures, rotations) ==
  [sky |-> [texture |-> skyTexture, yaw |-> yaw],
   materials |-> <<[doubleSided |-> FALSE, texture |-> materialTextures[1]],
                   [doubleSided |-> TRUE, texture |-> materialTextures[2]]>>,
   rotations |-> rotations]

\* no sky and no textured material: material 0 is single sided, material 1 double
\* sided, any other index has no manifest entry
ManifestBare == MakeManifest(NoRef, NoYaw, <<NoRef, NoRef>>, TRUE)

\* a value of scene.json that is a string (a sequence of characters; a word of the
\* model stands for one character), or something else
Str(text) == [isString |-> TRUE, text |-> text]
NotString == [isString |-> FALSE, text |-> <<>>]

\* a node of sceneJson.nodes; idIsInteger: Number.isInteger(node.id)
Node(id, config, meshType, children) ==
  [isObject |-> TRUE, id |-> id, idIsInteger |-> TRUE, config |-> config,
   meshType |-> meshType, children |-> children]
NullNode == [Node(0, NotString, NotString, <<>>) EXCEPT !.isObject = FALSE]

\* config.json: targetGroups (group id -> its materials, when they are an array) and
\* selectionGroups.countertops (when it is an array)
Group(materials) == [materialsIsArray |-> TRUE, materials |-> materials]
NoSelection == [isArray |-> FALSE, groups |-> <<>>]
Selection(groups) == [isArray |-> TRUE, groups |-> groups]
MakeConfig(targetGroups, selection) ==
  [targetGroups |-> targetGroups, selection |-> selection]

\* one group "countertop" with the material "stone", and no selection
ConfigStone == MakeConfig([g \in {"countertop"} |-> Group(<<<<"stone">>>>)], NoSelection)

MakeSceneInput(stride, records, faces16Present, nodes, config, manifest) ==
  [table |-> [stride |-> stride, records |-> records],
   views |-> SceneViews(faces16Present),
   nodes |-> nodes,
   config |-> config,
   manifest |-> manifest]

\* a scene whose nodes are the nodes `targets`, in this order, each with the hint
\* "{stone}", under ConfigStone
MakeInput(stride, records, faces16Present, targets, manifest) ==
  MakeSceneInput(stride, records, faces16Present,
                 [i \in 1..Len(targets) |->
                    Node(targets[i], Str(<<"{", "stone", "}">>), NotString, <<>>)],
                 ConfigStone, manifest)

NoInput == MakeInput(0, <<>>, FALSE, <<>>, ManifestBare)

\* scene loads: every short table over the core records, each malformed record
\* between two valid ones, a table long enough for the decode loop to yield, with
\* and without a 16-bit face buffer, and unsupported strides
LoadInputs ==
  {MakeInput(MinStride, t, TRUE, <<1>>, ManifestBare) :
     t \in SeqsUpTo({RValid, RValidB, RZeroVertex, RBadVertex}, MaxRecords)}
  \cup {MakeInput(MinStride + 1, <<RValid, r, RValidB>>, f, <<2, 1>>, ManifestBare) :
     r \in {RNegativeFaces, RNegativeVertexOffset, RBadFace, RBadTransform, RBadUv,
            RFaces16, RValidC},
     f \in BOOLEAN}
  \cup {MakeInput(MinStride, Repeat(RValid, DecodeBatchSize) \o t, TRUE, <<1>>,
                  MakeManifest(PlainRef(DefPlain), NoYaw, <<PlainRef(DefPlain), NoRef>>,
                               TRUE)) :
     t \in {<<>>, <<RBadVertex, RValidB>>}}
  \cup {MakeInput(s, <<RValid, RValidB>>, TRUE, <<1>>, ManifestBare) :
          s \in {0, MinStride - 1}}

\* scenes for the retexture engine: no target, one target mesh, two target meshes that
\* share a material index, a target mesh and another mesh that share a material
\* index, two target meshes of different material indexes, a double-sided target mesh
\* and one whose record names no material
ApplyInputs ==
  {MakeInput(MinStride, t[1], TRUE, t[2], ManifestBare) :
     t \in {<<<<RValid, RValidB>>, <<>>>>,
            <<<<RValid, RValidB>>, <<1>>>>,
            <<<<RValid, RValid, RValidB>>, <<1>>>>,
            <<<<RValid, RFaces16>>, <<1>>>>,
            <<<<RValid, RBadVertex, RValidC>>, <<2, 1>>>>,
            <<<<RValidB, RNoMaterial>>, <<2, 3>>>>}}

\* the resources buildScene fetches
Resources ==
  {"scene.json", "config.json", "meshes.buf", "bounds.buf", "faces16.buf",
   "faces.buf", "vertices.buf", "transforms.buf", "uvs0.buf"}

\* texture ids handed to applyCountertopTexture
IdBlank == <<" ">>
IdX == <<"x">>
IdXPadded == <<" ", "x">>
IdY == <<"y", "/", "z">>

EmptyMap == [k \in {} |-> 0]

NoCountertop ==
  [nodeIds |-> <<>>, meshes |-> <<>>, materialIndexes |-> <<>>,
   overrides |-> EmptyMap, harmonized |-> FALSE]

(***************************************************************************)
(* Angles and orientations of the backdrop.  An angle in radians is a      *)
(* fraction of pi in lowest terms; an orientation is the list of the       *)
(* axis rotations it stands for, in the order they act on a vector.        *)
(***************************************************************************)
RECURSIVE GCD(_, _)
GCD(a, b) == IF b = 0 THEN a ELSE GCD(b, a % b)

PiFraction(num, den) ==
  LET g == GCD(Abs(num), den) IN [num |-> num \div g, den |-> den \div g]

ZeroAngle == PiFraction(0, 1)
HalfPi == PiFraction(1, 2)

\* THREE.MathUtils.degToRad: degrees * pi / 180
DegToRad(degrees) == PiFraction(degrees, 180)

\* new Quaternion().setFromAxisAngle(axis, angle)
SetFromAxisAngle(axis, angle) == <<[axis |-> axis, angle |-> angle]>>

\* a.multiply(b): the rotation b followed by the rotation a
MultiplyReversed(a, b) == a \o b
Multiply(a, b) == b \o a

\* the backdrop before any scene: no sky mesh, no environment, rotations at zero
NoExterior ==
  [mode |-> "none", skyMap |-> NoTexture, orientation |-> <<>>,
   environment |-> NoTexture, environmentRotation |-> ZeroAngle,
   backgroundRotation |-> ZeroAngle]

\* clearSceneExterior
ClearSceneExterior(e) ==
  [e EXCEPT !.skyMap = NoTexture, !.orientation = <<>>, !.environment = NoTexture]

\* `scene.environmentRotation.set(0, 0, yawRadians)`, then (0, 0, 0) when the
\* authored yaw is not finite: the rotation about Z
EnvironmentRotationZero(yaw, yawRadians) == ZeroAngle
EnvironmentRotation(yaw, yawRadians) == IF yaw.finite THEN yawRadians ELSE ZeroAngle

\* applySceneExterior once the sky texture is there
SkyLoaded(e, sky, texture, rotations) ==
  LET yawRadians == IF sky.yaw.finite THEN DegToRad(sky.yaw.degrees) ELSE ZeroAngle
      zUpSkyQuat == SetFromAxisAngle("x", HalfPi)
      skyYawQuat == SetFromAxisAngle("z", yawRadians)
  IN [mode |-> "sky",
      skyMap |-> texture,
      orientation |-> Multiply(skyYawQuat, zUpSkyQuat),
      environment |-> <<"environment", texture[2]>>,
      environmentRotation |-> IF rotations THEN EnvironmentRotation(sky.yaw, yawRadians)
                              ELSE e.environmentRotation,
      backgroundRotation |-> IF rotations THEN ZeroAngle ELSE e.backgroundRotation]

(***************************************************************************)
(* bootstrap and buildScene, as functions of the world.  pc:               *)
(*   "fetching"   awaiting the nine fetches                                *)
(*   "exterior"   awaiting the sky texture in applySceneExterior           *)
(*   "materials"  awaiting the base maps in buildMaterialMap               *)
(*   "decoding"   the decode loop yielded to the scheduler                 *)
(*   "catalog"    buildScene returned; awaiting loadTextureCatalog         *)
(*   "done"       bootstrap made its applyCountertopTexture call           *)
(*   "aborted"    buildScene threw; "catalogFailed": loadTextureCatalog did*)
(*   "reloaded"   a later buildScene returned                              *)
(* An await of a promise that is settled already goes on in the same       *)
(* macrotask.                                                              *)
(***************************************************************************)
\* setStatus by bootstrap or buildScene
SetLoadStatus(w, st) == [w EXCEPT !.status = st, !.log = Append(@, st)]

\* buildScene threw: bootstrap's catch
Abort(w, message) ==
  [SetLoadStatus(w, Status("load-error", message, TRUE)) EXCEPT
     !.pc = "aborted", !.jobs = <<>>]

\* `Array.isArray(selectionGroups.countertops) ? selectionGroups.countertops : [...]`
DefaultCountertopTargets == <<"countertop">>

\* extractCountertopMaterialNames: the set of the truthy names of the selected groups
ExtractCountertopMaterialNames(config) ==
  LET countertopTargets == IF config.selection.isArray THEN config.selection.groups
                           ELSE DefaultCountertopTargets
      namesOf(groupId) ==
        IF groupId \in DOMAIN config.targetGroups
           /\ config.targetGroups[groupId].materialsIsArray
        THEN {name \in Range(config.targetGroups[groupId].materials) : name # <<>>}
        ELSE {}
  IN UNION {namesOf(countertopTargets[k]) : k \in DOMAIN countertopTargets}

\* String.prototype.indexOf, 0-based, -1 when the character is not there
IndexOf(source, char) ==
  IF \E k \in DOMAIN source : source[k] = char
  THEN (CHOOSE k \in DOMAIN source :
          source[k] = char /\ \A j \in 1..(k - 1) : source[j] # char) - 1
  ELSE -1

\* extractMaterialNameFromNodeConfig: "" (the empty sequence) when there is no hint
ExtractMaterialNameFromNodeConfig(configValue) ==
  IF ~configValue.isString THEN <<>>
  ELSE LET source == Trim(configValue.text)
           endBrace == IndexOf(source, "}")
       IN IF source = <<>> \/ source[1] # "{" THEN <<>>
          ELSE IF endBrace <= 1 THEN <<>>
          ELSE Trim(SubSeq(source, 2, endBrace))

\* `extractMaterialNameFromNodeConfig(node.config) ||
\*  extractMaterialNameFromNodeConfig(node.meshType)`
ConfigMaterialName(node) ==
  IF ExtractMaterialNameFromNodeConfig(node.config) # <<>>
  THEN ExtractMaterialNameFromNodeConfig(node.config)
  ELSE ExtractMaterialNameFromNodeConfig(node.meshType)

\* `queue.push(...node.children)`
ChildrenOfNone(node) == <<>>
ChildrenOf(node) == node.children

\* the while loop of extractCountertopNodeIds: nodeIds is the Set, in insertion order
RECURSIVE VisitNodes(_, _, _)
VisitNodes(queue, names, nodeIds) ==
  IF queue = <<>> THEN nodeIds
  ELSE LET node == Head(queue)
       IN IF ~node.isObject THEN VisitNodes(Tail(queue), names, nodeIds)
          ELSE VisitNodes(
                 Tail(queue) \o ChildrenOf(node), names,
                 IF /\ ConfigMaterialName(node) # <<>>
                    /\ ConfigMaterialName(node) \in names
                    /\ node.idIsInteger
                    /\ node.id \notin Range(nodeIds)
                 THEN Append(nodeIds, node.id) ELSE nodeIds)

\* extractCountertopNodeIds (sceneJson.nodes is an array in every scene of the model)
ExtractCountertopNodeIds(sceneNodes, countertopMaterialNames) ==
  IF countertopMaterialNames = {} THEN <<>>
  ELSE VisitNodes(sceneNodes, countertopMaterialNames, <<>>)

\* runtime.countertopNodeIds.flatMap(nodeId => runtime.meshesByNodeId.get(nodeId) || []):
\* meshesByNodeId holds the meshes of this load
RECURSIVE MeshesOfNodes(_, _, _)
MeshesOfNodes(nodeIds, ms, load) ==
  IF nodeIds = <<>> THEN <<>>
  ELSE SelectSeq([i \in 1..Len(ms) |-> i],
                 LAMBDA i : ms[i].nodeId = Head(nodeIds) /\ ms[i].load = load)
       \o MeshesOfNodes(Tail(nodeIds), ms, load)

\* `runtime.countertopOverrideMaterials.clear()`
ClearOverrideMaterialsSkipped(overrides) == overrides
ClearOverrideMaterials(overrides) == EmptyMap

\* `runtime.countertopNormalsHarmonized = false`
CountertopNormalsHarmonizedKept(previous) == previous.harmonized
CountertopNormalsHarmonized(previous) == FALSE

\* the countertop block that ends buildScene
SelectCountertop(previous, nodeIds, ms, load) ==
  LET targets == MeshesOfNodes(nodeIds, ms, load)
  IN [nodeIds |-> nodeIds,
      meshes |-> targets,
      materialIndexes |-> Dedup([i \in 1..Len(targets) |-> ms[targets[i]].materialIdx]),
      overrides |-> ClearOverrideMaterials(previous.overrides),
      harmonized |-> CountertopNormalsHarmonized(previous)]

\* the end of buildScene, and bootstrap's next status when it is the caller
BuildSceneEnd(w) ==
  LET selected == [w EXCEPT
                     !.countertop = SelectCountertop(
                                      @, ExtractCountertopNodeIds(
                                           w.scene.nodes,
                                           ExtractCountertopMaterialNames(w.scene.config)),
                                      w.meshes, w.loads)]
      loaded == SetLoadStatus(selected, Status("loaded", <<w.built, w.skipped>>, FALSE))
  IN IF w.loads = 1
     THEN [SetLoadStatus(loaded, Status("loading-catalog", <<>>, FALSE)) EXCEPT
             !.pc = "catalog"]
     ELSE [loaded EXCEPT !.pc = "reloaded"]

\* the decode loop from record `from` on, and what follows it in the same macrotask
RunDecode(w, from) ==
  LET r == DecodeLoop(w.props, w.scene.views, w.materials, w.loads, from,
                      [meshes |-> w.meshes, outcomes |-> w.outcomes, built |-> w.built,
                       skipped |-> w.skipped, next |-> from, end |-> "running"])
      after == [w EXCEPT !.meshes = r.meshes, !.outcomes = r.outcomes, !.built = r.built,
                         !.skipped = r.skipped, !.next = r.next]
  IN IF r.end = "thrown" THEN Abort(after, <<"type-error", r.next>>)
     ELSE IF r.end = "yielded"
     THEN [SetLoadStatus(after, Status("decoding", <<r.built, Len(w.props)>>, FALSE)) EXCEPT
             !.pc = "decoding"]
     ELSE BuildSceneEnd(after)

\* buildScene from the "Decoding geometry" status on
StartDecode(w) ==
  RunDecode([SetLoadStatus(w, Status("decoding", <<0, Len(w.props)>>, FALSE)) EXCEPT
               !.pc = "decoding", !.outcomes = <<>>, !.built = 0, !.skipped = 0], 1)

\* resolveMaterialTexture, up to its await: promise 0 when it returns null at once;
\* clone: the material gets a clone of the atlas texture
ResolveMaterialTexture(w, ref) ==
  IF ref.kind \in {"none", "atlas-missing"}
  THEN [world |-> w, promise |-> 0, clone |-> FALSE]
  ELSE LET got == LoadSceneTexture(w, ref.def)
       IN [world |-> got.world, promise |-> got.promise, clone |-> ref.kind = "atlas"]

\* a promise buildScene is suspended on
Job(what, index, got) ==
  [what |-> what, index |-> index, chain |-> got.promise, clone |-> got.clone]

JobSettledOnSuccess(w, job) ==
  job.chain = 0 \/ (w.chains[job.chain].state = "resolved" /\ w.chains[job.chain].value # 0)
JobSettled(w, job) == job.chain = 0 \/ w.chains[job.chain].state = "resolved"

\* what resolveMaterialTexture returned to the awaiting job
JobTexture(w, job) ==
  IF job.chain = 0 \/ w.chains[job.chain].value = 0 THEN NoTexture
  ELSE <<IF job.clone THEN "atlas" ELSE "scene", job.chain>>

\* `runtime.materialByIndex.set(index, material)`
SetMaterial(w, index, texture) ==
  [w EXCEPT !.materials = CachePut(@, index, BuildMaterial(w.scene.manifest.materials,
                                                           index, texture, w.loads))]

\* buildMaterialMap: the synchronous part of the callback of every used index
RECURSIVE StartMaterials(_, _)
StartMaterials(w, indexes) ==
  IF indexes = <<>> THEN w
  ELSE LET index == Head(indexes)
           sources == w.scene.manifest.materials
       IN IF index + 1 \notin DOMAIN sources
          THEN StartMaterials(SetMaterial(w, index, NoTexture), Tail(indexes))
          ELSE LET got == ResolveMaterialTexture(w, sources[index + 1].texture)
               IN StartMaterials([got.world EXCEPT
                                    !.jobs = Append(@, Job("material", index, got))],
                                 Tail(indexes))

\* the callbacks whose base map is settled go on and set their material
RECURSIVE FinishMaterialJobs(_, _)
FinishMaterialJobs(w, k) ==
  IF k > Len(w.jobs) THEN [w EXCEPT !.jobs = SelectSeq(@, LAMBDA j : ~JobSettled(w, j))]
  ELSE FinishMaterialJobs(
         IF JobSettled(w, w.jobs[k])
         THEN SetMaterial(w, w.jobs[k].index, JobTexture(w, w.jobs[k]))
         ELSE w, k + 1)

\* Promise.all of buildMaterialMap is fulfilled when no callback is left
MaterialsSettled(w) ==
  LET finished == FinishMaterialJobs(w, 1)
  IN IF finished.jobs = <<>> THEN StartDecode(finished) ELSE finished

\* a set of numbers in ascending order
RECURSIVE SortedSeq(_)
SortedSeq(S) ==
  IF S = {} THEN <<>>
  ELSE LET least == CHOOSE x \in S : \A y \in S : x <= y
       IN <<least>> \o SortedSeq(S \ {least})

\* buildScene from the "Building material map" status on
BuildMaterialMap(w) ==
  MaterialsSettled(
    StartMaterials(
      [SetLoadStatus(w, Status("building-materials", <<Len(w.scene.manifest.materials)>>,
                               FALSE)) EXCEPT !.pc = "materials", !.jobs = <<>>],
      SortedSeq(UsedMaterialIndexes(w.props))))

\* applySceneExterior from its await on, and buildScene after it
ExteriorSettled(w) ==
  LET texture == JobTexture(w, w.jobs[1])
  IN BuildMaterialMap(
       IF texture = NoTexture
       THEN [w EXCEPT !.exterior.mode = "none"]
       ELSE [w EXCEPT !.exterior = SkyLoaded(@, w.scene.manifest.sky, texture,
                                             w.scene.manifest.rotations)])

\* buildScene from the "Loading exterior backdrop" status on
ApplySceneExterior(w) ==
  LET sky == w.scene.manifest.sky
      cleared == [SetLoadStatus(w, Status("loading-exterior", <<>>, FALSE)) EXCEPT
                    !.pc = "exterior", !.exterior = ClearSceneExterior(@)]
  IN IF sky.texture.kind = "none"
     THEN BuildMaterialMap([cleared EXCEPT !.exterior.mode = "none"])
     ELSE LET got == ResolveMaterialTexture(cleared, sky.texture)
              waiting == [got.world EXCEPT !.jobs = <<Job("sky", 0, got)>>]
          IN IF JobSettled(waiting, waiting.jobs[1]) THEN ExteriorSettled(waiting)
             ELSE waiting

\* buildScene once the nine fetches are there
BuildSceneFetched(w, in) ==
  LET parsed == ParseMeshProps(in.table)
      fetched == [w EXCEPT !.scene = in]
  IN IF ~parsed.ok THEN Abort(fetched, <<"unsupported-stride", in.table.stride>>)
     ELSE IF parsed.props = <<>> THEN Abort(fetched, <<"no-mesh-entries", 0>>)
     ELSE ApplySceneExterior([fetched EXCEPT !.props = parsed.props])

\* buildScene up to its first await
BuildSceneStart(w) ==
  [SetLoadStatus(w, Status("loading-manifests", <<>>, FALSE)) EXCEPT
     !.pc = "fetching", !.loads = @ + 1]

\* the chain c was just resolved: buildScene goes on when it was suspended on it
ResumeLoad(w, c) ==
  IF \A k \in 1..Len(w.jobs) : w.jobs[k].chain # c THEN w
  ELSE IF w.pc = "exterior" THEN ExteriorSettled(w)
  ELSE MaterialsSettled(w)

(***************************************************************************)
(* The handlers of the page.                                               *)
(***************************************************************************)
FetchFail ==
  /\ pc = "fetching"
  /\ \E r \in Resources : Commit(Abort(World, <<"request-failed", r>>))
  /\ UNCHANGED <<decodeVars, imageVars, geometryVars, catalogVars, poolVars, fillVars>>

FetchOk(inputs) ==
  /\ pc = "fetching"
  /\ \E in \in inputs : Commit(BuildSceneFetched(World, in))
  /\ UNCHANGED <<decodeVars, imageVars, geometryVars, catalogVars, poolVars, fillVars>>

\* the timer of the decode loop's yield
DecodeResume ==
  /\ pc = "decoding"
  /\ Commit(RunDecode(World, nextRecord))
  /\ UNCHANGED <<decodeVars, imageVars, geometryVars, catalogVars, poolVars, fillVars>>

CatalogFail ==
  /\ pc = "catalog"
  /\ Commit([SetLoadStatus(World, Status("load-error", <<"request-failed", "textures">>,
                                         TRUE)) EXCEPT !.pc = "catalogFailed"])
  /\ UNCHANGED <<decodeVars, imageVars, geometryVars, catalogVars, poolVars, fillVars>>

\* the catalog arrived: bootstrap applies the requested texture
CatalogOk(ids) ==
  /\ pc = "catalog"
  /\ \E id \in ids : Commit([ApplyCountertopTexture(World, id) EXCEPT !.pc = "done"])
  /\ UNCHANGED <<decodeVars, imageVars, geometryVars, catalogVars, poolVars, fillVars>>

\* the texture select's change event, or a click on the apply button
UserApply(ids, maxCalls) ==
  /\ Len(calls) < maxCalls
  /\ \E id \in ids : Commit(ApplyCountertopTexture(World, id))
  /\ UNCHANGED <<decodeVars, imageVars, geometryVars, catalogVars, poolVars, fillVars>>

\* a callback of a texture loader for candidate k of chain c, with the continuations
\* the chain makes runnable when this resolves it
Settle(c, ch) ==
  LET w == [World EXCEPT !.chains[c] = ch]
  IN /\ Commit(IF chains[c].state = "pending" /\ ch.state = "resolved"
               THEN ResumeLoad(ResumeWaiting(w, c, 1), c) ELSE w)
     /\ UNCHANGED <<decodeVars, imageVars, geometryVars, catalogVars, poolVars, fillVars>>

LoaderOnLoad ==
  \E c \in DOMAIN chains : \E k \in chains[c].inFlight : Settle(c, OnLoad(chains[c], k))

LoaderOnError ==
  \E c \in DOMAIN chains : \E k \in chains[c].inFlight : Settle(c, OnError(chains[c], k))

\* buildScene called once more in the page, after an earlier call returned: the scene is
\* loaded again in place (bootstrap, the only caller the page ships, calls it once)
MaxLoads == 2           \* calls of buildScene in one behaviour

Reload ==
  /\ pc \in {"done", "catalogFailed", "reloaded"}
  /\ loads < MaxLoads
  /\ Commit(BuildSceneStart(World))
  /\ UNCHANGED <<decodeVars, imageVars, geometryVars, catalogVars, poolVars, fillVars>>

(***************************************************************************)
(* Texture requests on their own: loadSceneTexture as resolveMaterialTexture*)
(* calls it for a material, an atlas or the sky, and loadCountertopTexture.*)
(***************************************************************************)
MaxRequests == 3        \* texture requests made in one behaviour

RECURSIVE SumOver(_, _)
SumOver(f, S) ==
  IF S = {} THEN 0
  ELSE LET k == CHOOSE x \in S : TRUE IN f[k] + SumOver(f, S \ {k})

TotalRequests == SumOver(requests, DOMAIN requests)

RequestSceneTexture ==
  /\ TotalRequests < MaxRequests
  /\ \E def \in TextureDefs : Commit(LoadSceneTexture(World, def).world)
  /\ UNCHANGED <<decodeVars, imageVars, geometryVars, catalogVars, poolVars, fillVars>>

RequestCountertopTexture ==
  /\ TotalRequests < MaxRequests
  /\ \E id \in {IdBlank, IdX, IdXPadded, IdY} :
       Commit(LoadCountertopTexture(World, id).world)
  /\ UNCHANGED <<decodeVars, imageVars, geometryVars, catalogVars, poolVars, fillVars>>

(***************************************************************************)
(* Background removal of a countertop image:                               *)
(* cropAndFillCountertopTextureImage and estimateBackdropFromCorners.      *)
(* An image is its width, its height, its RGBA pixels in row-major order   *)
(* (index y * width + x), whether a 2d context can be had for it, and       *)
(* whether getImageData succeeds on it (it throws on a tainted canvas).     *)
(***************************************************************************)
Min(a, b) == IF a < b THEN a ELSE b

Pixel(red, green, blue, alpha) ==
  [red |-> red, green |-> green, blue |-> blue, alpha |-> alpha]

MakeImage(width, height, data) ==
  [width |-> width, height |-> height, data |-> data, context |-> TRUE, readable |-> TRUE]

\* sorted[k] of [...values].sort((a, b) => a - b), k counted from 0
SortedAt(values, k) ==
  CHOOSE v \in Range(values) :
    /\ Cardinality({i \in DOMAIN values : values[i] < v}) <= k
    /\ k < Cardinality({i \in DOMAIN values : values[i] <= v})

MedianValue(values) ==
  IF Len(values) = 0 THEN 0 ELSE SortedAt(values, Len(values) \div 2)

\* the pixel indexes the four corner blocks sample, in the order they are pushed
CornerSamples(width, height) ==
  LET size == Max(8, (Min(width, height) * 6) \div 100)
      step == Max(1, size \div 10)
      cornerOffsets == << <<0, 0>>,
                          <<Max(0, width - size), 0>>,
                          <<0, Max(0, height - size)>>,
                          <<Max(0, width - size), Max(0, height - size)>> >>
      perRow == (Min(width, size) + step - 1) \div step
      rows == (Min(height, size) + step - 1) \div step
      perCorner == perRow * rows
  IN [k \in 1..(4 * perCorner) |->
        LET offset == cornerOffsets[((k - 1) \div perCorner) + 1]
            r == (k - 1) % perCorner
            x == offset[1] + step * (r % perRow)
            y == offset[2] + step * (r \div perRow)
        IN y * width + x]

DistanceSquared(pixel, red, green, blue) ==
  LET dr == pixel.red - red
      dg == pixel.green - green
      db == pixel.blue - blue
  IN dr * dr + dg * dg + db * db

\* The estimate: the per-channel medians of the samples and the 85th
\* percentile of the samples' distances to them.  The distances are kept
\* squared (sorting the squares sorts the distances), so p85Squared is the
\* square of the code's p85.
EstimateBackdropFromCorners(data, width, height) ==
  LET samples == CornerSamples(width, height)
      reds == [k \in DOMAIN samples |-> data[samples[k] + 1].red]
      greens == [k \in DOMAIN samples |-> data[samples[k] + 1].green]
      blues == [k \in DOMAIN samples |-> data[samples[k] + 1].blue]
      p85Index == Min(Len(samples) - 1, (Len(samples) * 85) \div 100)
  IN CHOOSE estimate \in
       {[red |-> red, green |-> green, blue |-> blue,
         p85Squared |->
           IF Len(samples) = 0 THEN 0
           ELSE SortedAt([k \in DOMAIN samples |->
                            DistanceSquared(data[samples[k] + 1], red, green, blue)],
                         p85Index)] :
          red \in {MedianValue(reds)}, green \in {MedianValue(greens)},
          blue \in {MedianValue(blues)}} : TRUE

\* distanceSquared <= threshold * threshold, with
\* threshold = max(20, min(84, p85 + 18)) and p85 the root of p85Squared:
\* below 2 the threshold is 20, from 66 on it is 84, and in between
\* d2 <= (p85 + 18)^2 is d2 - p85^2 - 324 <= 36 * p85 (36 * p85 < 2376),
\* squared when positive
WithinThreshold(distanceSquared, p85Squared) ==
  IF p85Squared <= 4 THEN distanceSquared <= 400
  ELSE IF p85Squared >= 4356 THEN distanceSquared <= 7056
  ELSE LET rest == distanceSquared - p85Squared - 324
       IN rest <= 0 \/ (rest <= 2376 /\ rest * rest <= 1296 * p85Squared)

\* the test of enqueueIfBackground on one pixel
IsBackdrop(pixel, backdrop) ==
  \/ pixel.alpha < 8
  \/ WithinThreshold(DistanceSquared(pixel, backdrop.red, backdrop.green, backdrop.blue),
                     backdrop.p85Squared)

\* the flood fill's arrays: visited and backgroundMask (Uint8Array, indexed
\* from 0) and the entries 0..queueEnd-1 of queue, with queueStart
NewFill(totalPixels) ==
  [visited |-> [i \in 0..(totalPixels - 1) |-> 0],
   backgroundMask |-> [i \in 0..(totalPixels - 1) |-> 0],
   queue |-> <<>>, queueStart |-> 0]

NoFill == NewFill(0)

EnqueueIfBackgroundUnmarked(fill, img, backdrop, x, y) ==
  LET index == y * img.width + x
  IN IF fill.visited[index] = 1 THEN fill
     ELSE IF IsBackdrop(img.data[index + 1], backdrop)
          THEN [fill EXCEPT !.backgroundMask[index] = 1,
                            !.queue = Append(@, index)]
          ELSE [fill EXCEPT !.visited[index] = 1]

EnqueueIfBackground(fill, img, backdrop, x, y) ==
  LET index == y * img.width + x
  IN IF fill.visited[index] = 1 THEN fill
     ELSE IF IsBackdrop(img.data[index + 1], backdrop)
          THEN [fill EXCEPT !.visited[index] = 1,
                            !.backgroundMask[index] = 1,
                            !.queue = Append(@, index)]
          ELSE [fill EXCEPT !.visited[index] = 1]

\* enqueueIfBackground on points[from..to], in order.  The range is halved to
\* keep the evaluation shallow, and each intermediate fill is bound by a
\* quantifier so that it is computed once.
RECURSIVE EnqueueAll(_, _, _, _, _, _)
EnqueueAll(fill, img, backdrop, points, from, to) ==
  IF from > to THEN fill
  ELSE IF from = to
  THEN CHOOSE after \in {EnqueueIfBackground(before, img, backdrop,
                                             points[from][1], points[from][2]) :
                           before \in {fill}} : TRUE
  ELSE CHOOSE after \in {EnqueueAll(half, img, backdrop, points,
                                    ((from + to) \div 2) + 1, to) :
                           half \in {EnqueueAll(fill, img, backdrop, points,
                                                from, (from + to) \div 2)}} : TRUE

\* the two seeding loops: (x, 0), (x, height - 1) for every x, then
\* (0, y), (width - 1, y) for every y
BorderOrder(width, height) ==
  [k \in 1..(2 * width + 2 * height) |->
     IF k <= 2 * width
     THEN <<(k - 1) \div 2, IF k % 2 = 1 THEN 0 ELSE height - 1>>
     ELSE <<IF (k - 2 * width) % 2 = 1 THEN 0 ELSE width - 1,
            (k - 2 * width - 1) \div 2>>]

SelectPoints(points, keep) ==
  LET kept == {i \in DOMAIN points : keep[i]}
  IN [k \in 1..Cardinality(kept) |->
        points[CHOOSE i \in kept : Cardinality({j \in kept : j < i}) = k - 1]]

NeighboursDiagonal(x, y, width, height) ==
  SelectPoints(<< <<x - 1, y>>, <<x + 1, y>>, <<x, y - 1>>, <<x, y + 1>>,
                  <<x - 1, y - 1>>, <<x + 1, y + 1>> >>,
               <<x > 0, x < width - 1, y > 0, y < height - 1,
                 x > 0 /\ y > 0, x < width - 1 /\ y < height - 1>>)

\* the pixels the fill loop looks at around (x, y), in its order
Neighbours(x, y, width, height) ==
  SelectPoints(<< <<x - 1, y>>, <<x + 1, y>>, <<x, y - 1>>, <<x, y + 1>> >>,
               <<x > 0, x < width - 1, y > 0, y < height - 1>>)

\* one iteration of the fill loop
FillIteration(before, img, backdrop) ==
  CHOOSE after \in
    {EnqueueAll([before EXCEPT !.queueStart = @ + 1], img, backdrop, around,
                1, Len(around)) :
       around \in {Neighbours(before.queue[before.queueStart + 1] % img.width,
                              before.queue[before.queueStart + 1] \div img.width,
                              img.width, img.height)}} : TRUE

\* up to count iterations of while (queueStart < queueEnd)
RECURSIVE FillIterations(_, _, _, _)
FillIterations(fill, count, img, backdrop) ==
  CHOOSE after \in
    {IF count = 0 \/ before.queueStart >= Len(before.queue) THEN before
     ELSE IF count = 1 THEN FillIteration(before, img, backdrop)
     ELSE FillIterations(FillIterations(before, count \div 2, img, backdrop),
                         count - (count \div 2), img, backdrop) :
       before \in {fill}} : TRUE

RECURSIVE FillLoop(_, _, _)
FillLoop(fill, img, backdrop) ==
  CHOOSE after \in
    {IF before.queueStart >= Len(before.queue) THEN before
     ELSE FillLoop(FillIterations(before, 64, img, backdrop), img, backdrop) :
       before \in {fill}} : TRUE

\* lines 252-315: the fill's arrays once the loop is over
FloodFill(img) ==
  CHOOSE after \in
    {FillLoop(EnqueueAll(NewFill(img.width * img.height), img, backdrop,
                         BorderOrder(img.width, img.height),
                         1, 2 * img.width + 2 * img.height),
              img, backdrop) :
       backdrop \in {EstimateBackdropFromCorners(img.data, img.width, img.height)}} : TRUE

\* The fill of lines 252-315 a step at a time: the seeding loops, then each
\* iteration of `while (queueStart < queueEnd)`, then the exit of the loop.
NoBackdrop == [red |-> 0, green |-> 0, blue |-> 0, p85Squared |-> 0]

NoFilling ==
  /\ filling = NoFill
  /\ fillPhase = "idle"
  /\ fillBackdrop = NoBackdrop

SeedFill ==
  /\ fillPhase = "seeding"
  /\ filling' = EnqueueAll(filling, image, fillBackdrop,
                           BorderOrder(image.width, image.height),
                           1, 2 * image.width + 2 * image.height)
  /\ fillPhase' = "looping"
  /\ UNCHANGED <<fillBackdrop, decodeVars, texVars, loadVars, applyVars, imageVars,
                 geometryVars, catalogVars, poolVars>>

FillStep ==
  /\ fillPhase = "looping"
  /\ filling.queueStart < Len(filling.queue)
  /\ filling' = FillIteration(filling, image, fillBackdrop)
  /\ UNCHANGED <<fillPhase, fillBackdrop, decodeVars, texVars, loadVars, applyVars,
                 imageVars, geometryVars, catalogVars, poolVars>>

FillEnds ==
  /\ fillPhase = "looping"
  /\ filling.queueStart >= Len(filling.queue)
  /\ fillPhase' = "done"
  /\ UNCHANGED <<filling, fillBackdrop, decodeVars, texVars, loadVars, applyVars,
                 imageVars, geometryVars, catalogVars, poolVars>>

PaddingNone(width, height) == 0

Padding(width, height) == Max(2, Min(width, height) \div 100)

NullCanvas == [kind |-> "null", minX |-> 0, minY |-> 0, cropWidth |-> 0, cropHeight |-> 0]

\* lines 317-363 and the canvas of 365-382: what the function returns for a mask
CropOfMask(backgroundMask, width, height) ==
  LET totalPixels == width * height
      foreground == {index \in 0..(totalPixels - 1) : backgroundMask[index] = 0}
      foregroundCount == Cardinality(foreground)
      xs == {index % width : index \in foreground}
      ys == {index \div width : index \in foreground}
      padding == Padding(width, height)
      minX == Max(0, (CHOOSE x \in xs : \A o \in xs : x <= o) - padding)
      minY == Max(0, (CHOOSE y \in ys : \A o \in ys : y <= o) - padding)
      maxX == Min(width - 1, (CHOOSE x \in xs : \A o \in xs : x >= o) + padding)
      maxY == Min(height - 1, (CHOOSE y \in ys : \A o \in ys : y >= o) + padding)
      cropWidth == maxX - minX + 1
      cropHeight == maxY - minY + 1
  IN IF foregroundCount = 0 THEN NullCanvas
     ELSE IF foregroundCount * 25 < totalPixels THEN NullCanvas
     ELSE IF cropWidth < 8 \/ cropHeight < 8 THEN NullCanvas
     ELSE [kind |-> "canvas", minX |-> minX, minY |-> minY,
           cropWidth |-> cropWidth, cropHeight |-> cropHeight]

\* what the in-painting left: cropBackgroundMask before the passes and after
\* them, colorData as it is put on the canvas, and the pixels the fallback
\* colour was written to
NoPaint == [before |-> <<>>, mask |-> <<>>, data |-> <<>>, fallback |-> {}]

\* lines 384-409: colorData and cropBackgroundMask of the crop
CropState(img, backgroundMask, canvas) ==
  LET sourceIndex(c) == ((c \div canvas.cropWidth) + canvas.minY) * img.width
                          + ((c % canvas.cropWidth) + canvas.minX)
      cropPixels == canvas.cropWidth * canvas.cropHeight
  IN [data |-> [c \in 0..(cropPixels - 1) |-> img.data[sourceIndex(c) + 1]],
      mask |-> [c \in 0..(cropPixels - 1) |-> backgroundMask[sourceIndex(c)]]]

\* the pixels a scan visits before pixel c on c's line: to its left or right
\* in its row, above or below it in its column
ScannedBefore(c, cropWidth, cropHeight, along, forward) ==
  {j \in 0..(cropWidth * cropHeight - 1) :
     /\ IF along = "row" THEN j \div cropWidth = c \div cropWidth
        ELSE j % cropWidth = c % cropWidth
     /\ IF forward THEN j < c ELSE j > c}

\* copyColor(fromIndex, toIndex) on colorData
CopyColor(data, fromIndex) == [data[fromIndex] EXCEPT !.alpha = 255]

\* One of the four scans over every line: a pixel still marked gets the
\* colour of lastSolid, the nearest pixel scanned before it on its line that
\* was not marked when the scan came to it, and is unmarked.  (A pixel the
\* scan fills does not become lastSolid.)
Scan(state, cropWidth, cropHeight, along, forward) ==
  LET solid(c) == {j \in ScannedBefore(c, cropWidth, cropHeight, along, forward) :
                     state.mask[j] = 0}
      lastSolid(c) == IF forward
                      THEN CHOOSE j \in solid(c) : \A o \in solid(c) : o <= j
                      ELSE CHOOSE j \in solid(c) : \A o \in solid(c) : o >= j
      filled(c) == state.mask[c] = 1 /\ solid(c) # {}
  IN [data |-> [c \in DOMAIN state.data |->
                  IF filled(c) THEN CopyColor(state.data, lastSolid(c))
                  ELSE state.data[c]],
      mask |-> [c \in DOMAIN state.mask |-> IF filled(c) THEN 0 ELSE state.mask[c]]]

\* the scans of the column loop (lines 452-472)
ColumnScansNone(state, cropWidth, cropHeight) == state
ColumnScans(state, cropWidth, cropHeight) ==
  CHOOSE after \in
    {Scan(down, cropWidth, cropHeight, "column", FALSE) :
       down \in {Scan(state, cropWidth, cropHeight, "column", TRUE)}} : TRUE

\* the scans of the row loop (lines 430-450); the rows do not touch one
\* another, so every row is scanned rightwards here before any is scanned
\* leftwards
RowScans(state, cropWidth, cropHeight) ==
  CHOOSE after \in
    {Scan(right, cropWidth, cropHeight, "row", FALSE) :
       right \in {Scan(state, cropWidth, cropHeight, "row", TRUE)}} : TRUE

RECURSIVE SumRange(_, _, _, _)
SumRange(data, channel, from, to) ==
  IF from > to THEN 0
  ELSE IF from = to THEN data[from][channel]
  ELSE SumRange(data, channel, from, (from + to) \div 2)
         + SumRange(data, channel, ((from + to) \div 2) + 1, to)

\* Math.round(avg / avgCount) over the pixels of the crop that were not marked,
\* 180 when there is none
FallbackChannel(crop, channel) ==
  LET solid == {c \in DOMAIN crop.mask : crop.mask[c] = 0}
      zeroed == [c \in DOMAIN crop.data |->
                   IF c \in solid THEN crop.data[c]
                   ELSE [red |-> 0, green |-> 0, blue |-> 0, alpha |-> 0]]
      count == Cardinality(solid)
  IN IF count = 0 THEN 180
     ELSE (2 * SumRange(zeroed, channel, 0, Cardinality(DOMAIN crop.data) - 1) + count)
            \div (2 * count)

\* lines 474-485: the fallback colour on the pixels that are still marked
WriteFallback(crop, after) ==
  IF \A c \in DOMAIN after.mask : after.mask[c] = 0 THEN after.data
  ELSE [c \in DOMAIN after.data |->
          IF after.mask[c] = 0 THEN after.data[c]
          ELSE Pixel(FallbackChannel(crop, "red"), FallbackChannel(crop, "green"),
                     FallbackChannel(crop, "blue"), 255)]

\* lines 384-487 for a canvas that was made: nothing is painted when the crop
\* has no background pixel
InPaint(img, backgroundMask, canvas) ==
  IF canvas.kind = "null" THEN NoPaint
  ELSE CHOOSE paint \in
    {IF \A c \in DOMAIN crop.mask : crop.mask[c] = 0
     THEN [before |-> crop.mask, mask |-> crop.mask, data |-> crop.data, fallback |-> {}]
     ELSE CHOOSE done \in
       {[before |-> crop.mask,
         mask |-> after.mask,
         data |-> WriteFallback(crop, after),
         fallback |-> {c \in DOMAIN after.mask : after.mask[c] = 1}] :
          after \in {ColumnScans(RowScans(crop, canvas.cropWidth, canvas.cropHeight),
                                  canvas.cropWidth, canvas.cropHeight)}} : TRUE :
       crop \in {CropState(img, backgroundMask, canvas)}} : TRUE

\* The call: the canvas it returned (or null), the fill's arrays when it
\* returned (NoFill when it returned before the fill) and what it painted.
CropAndFillCountertopTextureImage(img) ==
  IF img.width = 0 \/ img.height = 0
  THEN [canvas |-> NullCanvas, fill |-> NoFill, paint |-> NoPaint]
  ELSE IF ~img.context THEN [canvas |-> NullCanvas, fill |-> NoFill, paint |-> NoPaint]
  ELSE IF ~img.readable THEN [canvas |-> NullCanvas, fill |-> NoFill, paint |-> NoPaint]
  ELSE CHOOSE returned \in
         {[canvas |-> cropped.canvas, fill |-> cropped.fill,
           paint |-> InPaint(img, cropped.fill.backgroundMask, cropped.canvas)] :
            cropped \in
              {[canvas |-> CropOfMask(fill.backgroundMask, img.width, img.height),
                fill |-> fill] : fill \in {FloodFill(img)}}} : TRUE

\* loadCountertopTexture after the image loaded: the texture is made of the
\* processed canvas when there is one, and is the loaded texture otherwise
ProcessLoadedTexture(img) ==
  CHOOSE made \in
    {[canvas |-> processed.canvas, fill |-> processed.fill, paint |-> processed.paint,
      texture |-> IF processed.canvas.kind = "null" THEN "loadedTexture"
                  ELSE "canvasTexture"] :
       processed \in {CropAndFillCountertopTextureImage(img)}} : TRUE

MaxRemovals == 2        \* calls of cropAndFillCountertopTextureImage on one image

NoImage == [width |-> 0, height |-> 0, data |-> <<>>, context |-> TRUE, readable |-> TRUE]

RemoveBackground ==
  /\ Len(removals) < MaxRemovals
  /\ removals' = Append(removals, ProcessLoadedTexture(image))
  /\ UNCHANGED <<image, decodeVars, texVars, loadVars, applyVars, fillVars, poolVars, catalogVars, geometryVars>>

(***************************************************************************)
(* The normals and UVs of the countertop meshes:                           *)
(* harmonizeCountertopNormals and projectCountertopUvsWorld.               *)
(*                                                                         *)
(* Lengths are whole numbers of 2 mm, so that the call's position          *)
(* tolerance 0.012 is 6.  A mesh's matrixWorld is a translation, its       *)
(* positions are given in world space, and its normal matrix is the        *)
(* identity.  A normal is kept as an integer vector of its direction       *)
(* (normalize() divides it by its length), Zero when it has no direction.  *)
(***************************************************************************)
Zero == <<0, 0, 0>>
WorldUp == <<0, 0, 1>>

Dot(a, b) == a[1] * b[1] + a[2] * b[2] + a[3] * b[3]
LengthSq(a) == Dot(a, a)
Sub(a, b) == <<a[1] - b[1], a[2] - b[2], a[3] - b[3]>>
Negate(a) == <<-a[1], -a[2], -a[3]>>
Cross(a, b) == <<a[2] * b[3] - a[3] * b[2], a[3] * b[1] - a[1] * b[3],
                 a[1] * b[2] - a[2] * b[1]>>

\* the direction of a vector: the vector over the greatest common divisor of
\* its components
Direction(a) ==
  IF a = Zero THEN Zero
  ELSE LET g == GCD(GCD(Abs(a[1]), Abs(a[2])), Abs(a[3]))
       IN <<a[1] \div g, a[2] \div g, a[3] \div g>>

\* Math.abs(v.normalize().dot(worldUp)) >= threshold, for the threshold
\* num / den: |z| * den >= num * |v|, squared
UpAligned(v, threshold) ==
  /\ v # Zero
  /\ v[3] * v[3] * threshold.den * threshold.den
       >= threshold.num * threshold.num * LengthSq(v)

\* Math.round(value / step)
Round(value, step) == (2 * value + step) \div (2 * step)

MakeMesh(position, normal, index) ==
  [position |-> position, normal |-> normal, index |-> index, uv |-> <<>>]

Vertices(mesh) == 0..(Len(mesh.position) - 1)

MeshTopZ(mesh) ==
  CHOOSE z \in {mesh.position[i + 1][3] : i \in Vertices(mesh)} :
    \A i \in Vertices(mesh) : mesh.position[i + 1][3] <= z

MeshBottomZ(mesh) ==
  CHOOSE z \in {mesh.position[i + 1][3] : i \in Vertices(mesh)} :
    \A i \in Vertices(mesh) : mesh.position[i + 1][3] >= z

\* the vertices the triangle loop marks in topVertexMask
TopVertexMask(mesh, threshold) ==
  UNION {{mesh.index[3 * tri + 1], mesh.index[3 * tri + 2], mesh.index[3 * tri + 3]} :
           tri \in {t \in 0..((Len(mesh.index) \div 3) - 1) :
                      /\ \A k \in 1..3 : mesh.index[3 * t + k] \in Vertices(mesh)
                      /\ \E face \in {Direction(Cross(
                                        Sub(mesh.position[mesh.index[3 * t + 2] + 1],
                                            mesh.position[mesh.index[3 * t + 1] + 1]),
                                        Sub(mesh.position[mesh.index[3 * t + 3] + 1],
                                            mesh.position[mesh.index[3 * t + 1] + 1])))} :
                           face # Zero /\ UpAligned(face, threshold)}}

QualifiesByNormal(mesh, i, threshold) == UpAligned(mesh.normal[i + 1], threshold)

\* meshTopZ - z <= topPlaneTolerance = max(tolerance * 0.35, meshHeight * 0.01)
QualifiesByHeight(mesh, i, tolerance) ==
  100 * (MeshTopZ(mesh) - mesh.position[i + 1][3])
    <= Max(35 * tolerance, Max(0, MeshTopZ(mesh) - MeshBottomZ(mesh)))

QualifiesByTopFaceAlone(mesh, i, tolerance, threshold, flattenTopFaces) ==
  \/ flattenTopFaces /\ i \in TopVertexMask(mesh, threshold)
  \/ QualifiesByHeight(mesh, i, tolerance)
  \/ QualifiesByNormal(mesh, i, threshold)

QualifiesByTopFace(mesh, i, tolerance, threshold, flattenTopFaces) ==
  \/ flattenTopFaces /\ i \in TopVertexMask(mesh, threshold)
  \/ QualifiesByHeight(mesh, i, tolerance) /\ QualifiesByNormal(mesh, i, threshold)

\* what the vertex loop does with vertex i: "top" and "side" vertices go to a
\* bucket, a "skipped" one is passed over
VertexClass(mesh, i, tolerance, threshold, flattenTopFaces) ==
  IF QualifiesByTopFace(mesh, i, tolerance, threshold, flattenTopFaces) THEN "top"
  ELSE IF QualifiesByNormal(mesh, i, threshold) THEN "side"
  ELSE "skipped"

\* topBandHeight = max(tolerance * 10, 0.08)
TopBandHeight(tolerance) == Max(10 * tolerance, 40)

BucketKey(mesh, i, class, tolerance) ==
  <<Round(mesh.position[i + 1][1], tolerance),
    Round(mesh.position[i + 1][2], tolerance),
    class,
    IF class = "top" THEN Round(mesh.position[i + 1][3], TopBandHeight(tolerance))
    ELSE Round(mesh.position[i + 1][3], tolerance)>>

\* the normal a vertex adds to its bucket
SampledWorldNormalFlipped(normal, class) ==
  IF class = "top" THEN WorldUp ELSE Negate(normal)

SampledWorldNormal(normal, class) ==
  IF class = "top" THEN WorldUp
  ELSE IF normal[3] >= 0 THEN normal ELSE Negate(normal)

\* the whole length of a vector that has one (the normals of the scenes have)
WholeLength(v) ==
  IF \E n \in {1, 5, 13, 65} : n * n = LengthSq(v)
  THEN CHOOSE n \in {1, 5, 13, 65} : n * n = LengthSq(v)
  ELSE 0

RECURSIVE SumOfUnits(_, _, _)
SumOfUnits(samples, component, k) ==
  IF k = 0 THEN 0
  ELSE SumOfUnits(samples, component, k - 1)
         + samples[k][component] * (65 \div WholeLength(samples[k]))

\* The direction of the sum of the unit vectors of the samples: theirs when
\* they all have one direction, the sum over a common denominator when every
\* sample has a whole length; and Zero when the sum is shorter than 1e-5, in
\* which case the bucket is passed over.  (Samples of several directions
\* without whole lengths have no exact sum here; they are passed over too,
\* see ExactBuckets.)
AverageWorldNormal(samples) ==
  IF \A k \in DOMAIN samples : samples[k] = samples[1] THEN samples[1]
  ELSE IF \A k \in DOMAIN samples : WholeLength(samples[k]) # 0
  THEN Direction(<<SumOfUnits(samples, 1, Len(samples)),
                   SumOfUnits(samples, 2, Len(samples)),
                   SumOfUnits(samples, 3, Len(samples))>>)
  ELSE Zero

\* the refs of the buckets: <<mesh, vertex>> of every vertex that is not skipped
BucketRefs(ms, tolerance, threshold, flattenTopFaces) ==
  {ref \in UNION {{<<m, i>> : i \in Vertices(ms[m])} : m \in DOMAIN ms} :
     VertexClass(ms[ref[1]], ref[2], tolerance, threshold, flattenTopFaces) # "skipped"}

SetToSeq(S) ==
  [k \in 1..Cardinality(S) |->
     CHOOSE x \in S : Cardinality({y \in S : y[1] < x[1] \/ (y[1] = x[1] /\ y[2] < x[2])})
                        = k - 1]

\* harmonizeCountertopNormals(meshes, tolerance, threshold, flattenTopFaces):
\* the meshes with their normals rewritten
HarmonizeNormals(ms, tolerance, threshold, flattenTopFaces) ==
  LET class(m, i) == VertexClass(ms[m], i, tolerance, threshold, flattenTopFaces)
      key(m, i) == BucketKey(ms[m], i, class(m, i), tolerance)
      refs == BucketRefs(ms, tolerance, threshold, flattenTopFaces)
      bucket(m, i) == SetToSeq({ref \in refs : key(ref[1], ref[2]) = key(m, i)})
      average(m, i) ==
        AverageWorldNormal([k \in 1..Len(bucket(m, i)) |->
          SampledWorldNormal(ms[bucket(m, i)[k][1]].normal[bucket(m, i)[k][2] + 1],
                             class(bucket(m, i)[k][1], bucket(m, i)[k][2]))])
      after(m, i) ==
        IF <<m, i>> \notin refs THEN ms[m].normal[i + 1]
        ELSE IF flattenTopFaces /\ class(m, i) = "top" THEN WorldUp
        ELSE IF average(m, i) = Zero THEN ms[m].normal[i + 1]
        ELSE average(m, i)
  IN [m \in DOMAIN ms |->
        [ms[m] EXCEPT !.normal = [v \in 1..Len(ms[m].normal) |-> after(m, v - 1)]]]

\* the (u, v) of a vertex over the scale: the two world coordinates that its
\* normal's largest component leaves
ProjectVertex(position, normal) ==
  IF Abs(normal[2]) >= Abs(normal[1]) /\ Abs(normal[2]) >= Abs(normal[3])
  THEN <<position[1], position[3]>>
  ELSE IF Abs(normal[1]) >= Abs(normal[2]) /\ Abs(normal[1]) >= Abs(normal[3])
  THEN <<position[2], position[3]>>
  ELSE <<position[1], position[2]>>

\* projectCountertopUvsWorld(meshes, scale): the meshes with a new uv attribute
ProjectUvsWorld(ms) ==
  [m \in DOMAIN ms |->
     [ms[m] EXCEPT !.uv = [v \in 1..Len(ms[m].position) |->
                             ProjectVertex(ms[m].position[v], ms[m].normal[v])]]]

\* the arguments of the call in applyCountertopTexture: 0.012, 0.5, true
ApplyTolerance == 6
ApplyUpThreshold == [num |-> 1, den |-> 2]

MaxPasses == 2          \* runs of harmonizeCountertopNormals on one set of meshes

Harmonize ==
  /\ passes < MaxPasses
  /\ surface' = HarmonizeNormals(surface, ApplyTolerance, ApplyUpThreshold, TRUE)
  /\ passes' = passes + 1
  /\ UNCHANGED <<decodeVars, texVars, loadVars, applyVars, imageVars, catalogVars, poolVars, fillVars>>

Project ==
  /\ passes > 0
  /\ surface' = ProjectUvsWorld(surface)
  /\ surface' # surface
  /\ UNCHANGED <<passes, decodeVars, texVars, loadVars, applyVars, imageVars, catalogVars, poolVars, fillVars>>

(***************************************************************************)
(* The product loader of the catalog page: the effect of App that depends   *)
(* on [inventory, selectedSlug].  A change of the selected slug renders the *)
(* page, runs the cleanup the effect's last run returned, and runs the      *)
(* effect with the state of that render.                                   *)
(***************************************************************************)
NoSlug == <<>>
Slugs == {<<"a">>, <<"b">>, <<"c">>}

NoCatalog ==
  /\ selectedSlug = NoSlug
  /\ productStatusBySlug = EmptyMap
  /\ productsBySlug = EmptyMap
  /\ productFetches = <<>>

\* the cleanup of the effect: `mounted = false; controller.abort()`
Cleanup(fetches) == [k \in DOMAIN fetches |-> [fetches[k] EXCEPT !.mounted = FALSE]]

\* the early returns of the effect
EffectReturnsEarly(slug, products, statuses) ==
  \/ slug = NoSlug
  \/ slug \in DOMAIN products
  \/ (slug \in DOMAIN statuses /\ statuses[slug] = "loading")

MaxProductFetches == 4  \* fetches the product effect begins in one behaviour

\* setSelectedSlug(slug) with another slug than the selected one (null included)
SelectSlug ==
  /\ Len(productFetches) < MaxProductFetches
  /\ \E slug \in (Slugs \cup {NoSlug}) \ {selectedSlug} :
       /\ selectedSlug' = slug
       /\ IF EffectReturnsEarly(slug, productsBySlug, productStatusBySlug)
          THEN /\ productFetches' = Cleanup(productFetches)
               /\ UNCHANGED productStatusBySlug
          ELSE /\ productFetches' =
                    Append(Cleanup(productFetches),
                           [slug |-> slug, mounted |-> TRUE, state |-> "pending"])
               /\ productStatusBySlug' = CachePut(productStatusBySlug, slug, "loading")
  /\ UNCHANGED <<productsBySlug, decodeVars, texVars, loadVars, applyVars, imageVars,
                 geometryVars, poolVars, fillVars>>

\* the response of a fetch arrives and its JSON is read
ProductLoaded ==
  \E k \in DOMAIN productFetches :
    /\ productFetches[k].state = "pending"
    /\ productFetches[k].mounted
    /\ productFetches' = [productFetches EXCEPT ![k].state = "settled"]
    /\ productsBySlug' = CachePut(productsBySlug, productFetches[k].slug, "product")
    /\ productStatusBySlug' = CachePut(productStatusBySlug, productFetches[k].slug, "ready")
    /\ UNCHANGED <<selectedSlug, decodeVars, texVars, loadVars, applyVars, imageVars,
                   geometryVars, poolVars, fillVars>>

\* the fetch fails, the response is not ok or its JSON cannot be read
ProductFailed ==
  \E k \in DOMAIN productFetches :
    /\ productFetches[k].state = "pending"
    /\ productFetches[k].mounted
    /\ productFetches' = [productFetches EXCEPT ![k].state = "settled"]
    /\ productsBySlug' = CachePut(productsBySlug, productFetches[k].slug, "fallback")
    /\ productStatusBySlug' = CachePut(productStatusBySlug, productFetches[k].slug, "error")
    /\ UNCHANGED <<selectedSlug, decodeVars, texVars, loadVars, applyVars, imageVars,
                   geometryVars, poolVars, fillVars>>

\* a fetch whose effect was cleaned up settles: it rejects with an AbortError,
\* or it was answered already and loadProduct finds `mounted` false
ProductAborted ==
  \E k \in DOMAIN productFetches :
    /\ productFetches[k].state = "pending"
    /\ ~productFetches[k].mounted
    /\ productFetches' = [productFetches EXCEPT ![k].state = "settled"]
    /\ UNCHANGED <<selectedSlug, productsBySlug, productStatusBySlug, decodeVars,
                   texVars, loadVars, applyVars, imageVars, geometryVars, poolVars, fillVars>>

(***************************************************************************)
(* The worker pool of the asset-mirroring script: worker(items, handler).  *)
(* A handler call is made when a runner takes an item and settles later,   *)
(* with a result or with a rejection.                                      *)
(***************************************************************************)
CONCURRENCY == 8

NoResult == <<>>
NoRunner == [state |-> "returned", current |-> 0]

NoPool ==
  /\ poolItems = <<>>
  /\ poolIndex = 0
  /\ poolResults = <<>>
  /\ poolCalls = <<>>
  /\ runners = <<>>
  /\ workerState = "pending"

Pool ==
  [items |-> poolItems, index |-> poolIndex, results |-> poolResults,
   calls |-> poolCalls, runners |-> runners, worker |-> workerState]

\* what the handler returns for an item when it does not reject
HandlerResult(item, current) == <<"handled", item, current>>

\* `index += 1`
NextIndexKept(index) == index
NextIndex(index) == index + 1

\* runOne of runner r from the test of its loop to its next await, or to its return
RunOne(p, r) ==
  IF p.index < Len(p.items)
  THEN [p EXCEPT !.runners[r] = [state |-> "awaiting", current |-> p.index],
                 !.index = NextIndex(p.index),
                 !.calls[p.index + 1] = @ + 1]
  ELSE [p EXCEPT !.runners[r] = [state |-> "returned", current |-> 0]]

\* Array.from({ length: CONCURRENCY }, () => runOne()): runner k runs to its
\* first await before runner k + 1 begins
RECURSIVE StartRunners(_, _)
StartRunners(p, k) ==
  IF k > CONCURRENCY THEN p ELSE StartRunners(RunOne(p, k), k + 1)

\* Promise.all over the runners, and the return of worker
PromiseAll(p) ==
  IF p.worker # "pending" THEN p
  ELSE IF \E r \in DOMAIN p.runners : p.runners[r].state = "rejected"
  THEN [p EXCEPT !.worker = "rejected"]
  ELSE IF \A r \in DOMAIN p.runners : p.runners[r].state = "returned"
  THEN [p EXCEPT !.worker = "resolved"]
  ELSE p

\* worker(items, handler) up to its await
Worker(items) ==
  PromiseAll(StartRunners(
    [items |-> items, index |-> 0,
     results |-> [i \in 1..Len(items) |-> NoResult],
     calls |-> [i \in 1..Len(items) |-> 0],
     runners |-> [r \in 1..CONCURRENCY |-> NoRunner],
     worker |-> "pending"], 1))

CommitPool(p) ==
  /\ poolItems' = p.items
  /\ poolIndex' = p.index
  /\ poolResults' = p.results
  /\ poolCalls' = p.calls
  /\ runners' = p.runners
  /\ workerState' = p.worker

\* the handler call a runner awaits resolves: the runner stores the result and
\* goes round its loop
HandlerResolves ==
  \E r \in DOMAIN runners :
    /\ runners[r].state = "awaiting"
    /\ CommitPool(PromiseAll(RunOne(
         [Pool EXCEPT !.results[runners[r].current + 1] =
                        HandlerResult(poolItems[runners[r].current + 1],
                                      runners[r].current)], r)))
    /\ UNCHANGED <<decodeVars, texVars, loadVars, applyVars, imageVars, geometryVars,
                   catalogVars, fillVars>>

\* the handler call a runner awaits rejects: the await throws, runOne rejects
HandlerRejects ==
  \E r \in DOMAIN runners :
    /\ runners[r].state = "awaiting"
    /\ CommitPool(PromiseAll([Pool EXCEPT !.runners[r].state = "rejected"]))
    /\ UNCHANGED <<decodeVars, texVars, loadVars, applyVars, imageVars, geometryVars,
                   catalogVars, fillVars>>

\* main().catch: process.exit(1) ends the handler calls that are in flight
MainExits ==
  /\ workerState = "rejected"
  /\ \E r \in DOMAIN runners : runners[r].state = "awaiting"
  /\ runners' = [r \in DOMAIN runners |->
                   IF runners[r].state = "awaiting"
                   THEN [runners[r] EXCEPT !.state = "exited"] ELSE runners[r]]
  /\ UNCHANGED <<poolItems, poolIndex, poolResults, poolCalls, workerState, decodeVars,
                 texVars, loadVars, applyVars, imageVars, geometryVars, catalogVars, fillVars>>

(***************************************************************************)
(* decodeMeshGeometry on its own.                                          *)
(***************************************************************************)
Pending == [kind |-> "pending", positions |-> 0, indices |-> <<>>, uv |-> "none"]

Decode ==
  /\ decOut = Pending
  /\ decOut' = DecodeMeshGeometry(decIn.p, decIn.v)
  /\ UNCHANGED <<decIn, texVars, loadVars, applyVars, imageVars, geometryVars, catalogVars, poolVars, fillVars>>

(***************************************************************************)
(* Specifications.                                                         *)
(***************************************************************************)
NoDecode ==
  /\ decIn = [p |-> RValid, v |-> SceneViews(TRUE)]
  /\ decOut = NoGeometry

NoHarmonize ==
  /\ surface = <<>>
  /\ passes = 0

NoRemoval ==
  /\ image = NoImage
  /\ removals = <<>>

NoTextures ==
  /\ chains = <<>>
  /\ sceneTextureCache = EmptyMap
  /\ externalTextureCache = EmptyMap
  /\ requests = EmptyMap

NoScene(at, st) ==
  /\ pc = at
  /\ input = NoInput
  /\ meshProps = <<>>
  /\ outcomes = <<>>
  /\ meshes = <<>>
  /\ builtMeshes = 0
  /\ skippedMeshes = 0
  /\ materialByIndex = EmptyMap
  /\ countertop = NoCountertop
  /\ status = st
  /\ loadLog = <<st>>
  /\ nextRecord = 1
  /\ calls = <<>>
  /\ loads = 1
  /\ exterior = NoExterior
  /\ jobs = <<>>

\* the page after its script ran: bootstrap is inside buildScene, awaiting the fetches
PageInit ==
  /\ NoDecode
  /\ NoRemoval
  /\ NoFilling
  /\ NoPool
  /\ NoCatalog
  /\ NoHarmonize
  /\ NoTextures
  /\ NoScene("fetching", Status("loading-manifests", <<>>, FALSE))

\* the page: the retexture engine on a few scenes
Init == PageInit

Next ==
  \/ FetchFail
  \/ FetchOk(ApplyInputs)
  \/ CatalogFail
  \/ CatalogOk({IdX, IdBlank})
  \/ UserApply({IdBlank, IdX, IdXPadded, IdY}, MaxApplyCalls)
  \/ LoaderOnLoad
  \/ LoaderOnError

Spec == Init /\ [][Next]_vars

\* the page: the scene load on many mesh tables
NextLoad ==
  \/ FetchFail
  \/ FetchOk(LoadInputs)
  \/ DecodeResume
  \/ CatalogFail
  \/ CatalogOk({IdX})
  \/ UserApply({IdX}, 1)
  \/ LoaderOnLoad
  \/ LoaderOnError

SpecLoad == PageInit /\ [][NextLoad]_vars

\* the page when buildScene runs again: a scene is loaded over the one that is there
ReloadInputs ==
  {MakeInput(MinStride, <<RValid, RValidB>>, TRUE, <<1>>, ManifestBare),
   MakeInput(MinStride, <<RValid, RValidB>>, TRUE, <<1, 2>>, ManifestBare),
   MakeInput(MinStride, <<RValidC>>, TRUE, <<>>, ManifestBare)}

NextReload ==
  \/ FetchFail
  \/ FetchOk(ReloadInputs)
  \/ CatalogFail
  \/ CatalogOk({IdX})
  \/ UserApply({IdX}, MaxApplyCalls)
  \/ LoaderOnLoad
  \/ LoaderOnError
  \/ Reload

SpecReload == PageInit /\ [][NextReload]_vars

\* the page on scenes with textures: every sky reference with every pair of material
\* references, and a sky under every authored yaw, with and without the rotation
\* properties of the scene in the build
TextureRefs == {NoRef, PlainRef(DefPlain), AtlasRef(DefDuplicate), MissingAtlasRef}

SkyYaws == {NoYaw, Yaw(0), Yaw(90), Yaw(-45), Yaw(180)}

SceneManifests ==
  {MakeManifest(sky, NoYaw, <<first, second>>, TRUE) :
     sky \in TextureRefs, first \in TextureRefs, second \in TextureRefs}
  \cup {MakeManifest(PlainRef(DefVariants), yaw, <<NoRef, PlainRef(DefVariants)>>, rotations) :
     yaw \in SkyYaws, rotations \in BOOLEAN}

SceneInputs ==
  {MakeInput(MinStride, <<RValid, RValidB, RBadVertex, RValidC>>, TRUE, <<1>>, manifest) :
     manifest \in SceneManifests}

NextScene ==
  \/ FetchFail
  \/ FetchOk(SceneInputs)
  \/ CatalogFail
  \/ CatalogOk({IdX})
  \/ LoaderOnLoad
  \/ LoaderOnError

SpecScene == PageInit /\ [][NextScene]_vars

\* the page on scenes with node trees and target configurations: hints in config and
\* in meshType, at three depths, padded, empty or without braces, on a node whose id
\* is no integer and on two nodes of one id; selections of several groups, of a group
\* that is missing or whose materials are no array, and no selection
Hint(name) == Str(<<"{", name, "}">>)

TreeDeep ==
  <<Node(1, Hint("stone"), NotString,
         <<Node(2, Str(<<" ", "{", " ", "stone", " ", "}", "tail">>), NotString,
                <<Node(3, NotString, Hint("stone"), <<>>)>>)>>)>>

TreeMixed ==
  <<Node(3, Hint("wood"), NotString, <<>>),
    Node(1, Str(<<"stone", "}">>), Hint("tile"), <<>>),
    NullNode,
    Node(2, Str(<<"{", "}">>), Hint("stone"), <<>>),
    Node(2, Hint("stone"), NotString, <<>>)>>

TreeNonInteger ==
  <<[Node(3, Hint("stone"), NotString, <<>>) EXCEPT !.idIsInteger = FALSE],
    Node(2, Hint("STONE"), NotString, <<Node(1, Hint("stone"), Hint("wood"), <<>>)>>)>>

SelectConfigs ==
  {ConfigStone,
   MakeConfig([g \in {"countertops"} |-> Group(<<<<"stone">>>>)], NoSelection),
   MakeConfig([g \in {"island", "bar", "countertop"} |->
                 IF g = "island" THEN Group(<<<<"stone">>>>)
                 ELSE IF g = "bar" THEN Group(<<<<"wood">>, <<>>>>)
                 ELSE Group(<<<<"tile">>>>)],
              Selection(<<"island", "bar">>)),
   MakeConfig([g \in {"island"} |-> [Group(<<<<"stone">>>>) EXCEPT !.materialsIsArray = FALSE]],
              Selection(<<"island">>)),
   MakeConfig([g \in {"countertop"} |-> Group(<<<<"stone">>>>)], Selection(<<>>)),
   MakeConfig([g \in {"countertop"} |-> Group(<<<<"tile">>, <<"stone">>>>)],
              Selection(<<"missing", "countertop">>))}

SelectInputs ==
  {MakeSceneInput(MinStride, <<RValid, RValidB, RFaces16, RNoMaterial, RBadVertex>>, TRUE,
                  nodes, config, ManifestBare) :
     nodes \in {TreeDeep, TreeMixed, TreeNonInteger}, config \in SelectConfigs}

NextSelect ==
  \/ FetchFail
  \/ FetchOk(SelectInputs)
  \/ CatalogFail
  \/ CatalogOk({IdX, IdY})
  \/ LoaderOnLoad
  \/ LoaderOnError

SpecSelect == PageInit /\ [][NextSelect]_vars

\* texture requests in any order
InitTex ==
  /\ NoDecode
  /\ NoRemoval
  /\ NoFilling
  /\ NoPool
  /\ NoCatalog
  /\ NoHarmonize
  /\ NoTextures
  /\ NoScene("idle", Status("idle", <<>>, FALSE))

NextTex ==
  \/ RequestSceneTexture
  \/ RequestCountertopTexture
  \/ LoaderOnLoad
  \/ LoaderOnError

SpecTex == InitTex /\ [][NextTex]_vars

\* the page with later calls of the two texture loaders, once the scene is
\* loaded, besides those applyCountertopTexture makes
RetryInputs ==
  {MakeInput(MinStride, <<RValid, RValidB>>, TRUE, <<1>>, ManifestBare)}

LaterSceneTexture ==
  /\ pc \in {"done", "catalogFailed"}
  /\ TotalRequests < MaxRequests
  /\ Commit(LoadSceneTexture(World, DefPlain).world)
  /\ UNCHANGED <<decodeVars, imageVars, geometryVars, catalogVars, poolVars, fillVars>>

LaterCountertopTexture ==
  /\ pc \in {"done", "catalogFailed"}
  /\ TotalRequests < MaxRequests
  /\ \E id \in {IdX, IdXPadded} : Commit(LoadCountertopTexture(World, id).world)
  /\ UNCHANGED <<decodeVars, imageVars, geometryVars, catalogVars, poolVars, fillVars>>

NextRetry ==
  \/ FetchFail
  \/ FetchOk(RetryInputs)
  \/ CatalogFail
  \/ CatalogOk({IdX})
  \/ UserApply({IdX, IdXPadded}, MaxApplyCalls)
  \/ LaterSceneTexture
  \/ LaterCountertopTexture
  \/ LoaderOnLoad
  \/ LoaderOnError

SpecRetry == PageInit /\ [][NextRetry]_vars

\* the reconstructor on every record and view of the bounds
InitDecode ==
  /\ decIn \in [p : DecodeProps, v : DecodeViews]
  /\ decOut = Pending
  /\ NoRemoval
  /\ NoFilling
  /\ NoPool
  /\ NoCatalog
  /\ NoHarmonize
  /\ NoTextures
  /\ NoScene("idle", Status("idle", <<>>, FALSE))

NextDecode == Decode

SpecDecode == InitDecode /\ [][NextDecode]_vars

\* background removal on its own, on images small enough to enumerate
White == Pixel(240, 240, 240, 255)
NearWhite == Pixel(230, 236, 240, 255)
Stone == Pixel(90, 70, 50, 255)
Clear == Pixel(90, 70, 50, 0)
Faint == Pixel(90, 70, 50, 7)
Thin == Pixel(90, 70, 50, 8)

\* a 5x5 image: a white border around nine pixels chosen freely among two
FramedImage(inner) ==
  MakeImage(5, 5, [i \in 1..25 |->
    IF (i - 1) % 5 \in 1..3 /\ (i - 1) \div 5 \in 1..3
    THEN inner[(((i - 1) \div 5) - 1) * 3 + (((i - 1) % 5) - 1)] ELSE White])

FramedImages ==
  {FramedImage(inner) : inner \in [0..8 -> {White, Stone}] \cup [0..8 -> {Clear, Stone}]
                                  \cup [0..8 -> {Faint, Thin}]
                                  \cup [0..8 -> {NearWhite, Stone}]}

\* a 10x10 white image with a rectangle of stone
SlabImage(left, top, wide, high) ==
  MakeImage(10, 10, [i \in 1..100 |->
    IF (i - 1) % 10 \in left..(left + wide - 1) /\ (i - 1) \div 10 \in top..(top + high - 1)
    THEN Stone ELSE White])

SlabImages ==
  {SlabImage(r[1], r[2], r[3], r[4]) :
     r \in {q \in {0, 1, 3} \X {0, 1, 3} \X {1, 2, 4, 7, 8} \X {1, 4, 8} :
              q[1] + q[3] <= 10 /\ q[2] + q[4] <= 10}}

\* a 10x10 white image with single pixels of stone near its corners
DotImage(dots) ==
  MakeImage(10, 10, [i \in 1..100 |->
    IF <<(i - 1) % 10, (i - 1) \div 10>> \in dots THEN Stone ELSE White])

DotImages == {DotImage(dots) : dots \in SUBSET {<<1, 1>>, <<8, 1>>, <<1, 8>>, <<8, 8>>}}

\* a 10x10 white image with a rectangle of veined, translucent stone: no two
\* pixels of the rectangle have one colour
VeinedImage(left, top, wide, high) ==
  MakeImage(10, 10, [i \in 1..100 |->
    IF (i - 1) % 10 \in left..(left + wide - 1) /\ (i - 1) \div 10 \in top..(top + high - 1)
    THEN Pixel(90 + ((i - 1) % 10), 70 + ((i - 1) \div 10), 50, 200) ELSE White])

VeinedImages == {VeinedImage(3, 3, 4, 4), VeinedImage(1, 3, 8, 4), VeinedImage(4, 0, 3, 6)}

\* images the function cannot read
UnreadableImages ==
  {NoImage,
   [SlabImage(1, 1, 8, 8) EXCEPT !.context = FALSE],
   [SlabImage(1, 1, 8, 8) EXCEPT !.readable = FALSE]}

ImageInputs ==
  FramedImages \cup SlabImages \cup DotImages \cup VeinedImages \cup UnreadableImages

InitImage ==
  /\ NoDecode
  /\ NoTextures
  /\ NoScene("idle", Status("idle", <<>>, FALSE))
  /\ NoHarmonize
  /\ NoCatalog
  /\ NoPool
  /\ NoFilling
  /\ image \in ImageInputs
  /\ removals = <<>>

NextImage == RemoveBackground

SpecImage == InitImage /\ [][NextImage]_vars

\* harmonization and projection on their own, on one or two small meshes: a
\* horizontal face 30 above the ground, an upright face below its front edge,
\* or both sharing the vertices of that edge
Down == <<0, 0, -1>>
Front == <<0, -1, 0>>
Tilt == <<0, -3, 4>>
Steep == <<0, -4, 3>>
Shallow == <<0, -12, 5>>

AuthoredNormals == {WorldUp, Down, Front, Tilt, Steep, Shallow}

TopFace(left, normal) ==
  MakeMesh(<< <<left, 0, 30>>, <<left + 24, 0, 30>>, <<left + 24, 24, 30>>,
              <<left, 24, 30>> >>,
           <<normal, normal, normal, normal>>,
           <<0, 1, 2, 0, 2, 3>>)

FrontFace(left, normal) ==
  MakeMesh(<< <<left, 0, 0>>, <<left + 24, 0, 0>>, <<left + 24, 0, 30>>,
              <<left, 0, 30>> >>,
           <<normal, normal, normal, normal>>,
           <<0, 1, 2, 0, 2, 3>>)

WeldedFaces(left, normal) ==
  MakeMesh(<< <<left, 0, 0>>, <<left + 24, 0, 0>>, <<left + 24, 0, 30>>,
              <<left, 0, 30>>, <<left + 24, 24, 30>>, <<left, 24, 30>> >>,
           <<Front, Front, normal, normal, WorldUp, WorldUp>>,
           <<0, 1, 2, 0, 2, 3, 3, 2, 4, 3, 4, 5>>)

MeshesAt(left) ==
  UNION {{TopFace(left, normal), FrontFace(left, normal), WeldedFaces(left, normal)} :
           normal \in AuthoredNormals}

SurfaceInputs ==
  {<<first>> : first \in MeshesAt(0)}
    \cup {<<first, second>> : first \in MeshesAt(0), second \in MeshesAt(24) \cup MeshesAt(25)}

InitHarmonize ==
  /\ NoDecode
  /\ NoTextures
  /\ NoScene("idle", Status("idle", <<>>, FALSE))
  /\ NoRemoval
  /\ NoFilling
  /\ NoPool
  /\ NoCatalog
  /\ surface \in SurfaceInputs
  /\ passes = 0

NextHarmonize ==
  \/ Harmonize
  \/ Project

SpecHarmonize == InitHarmonize /\ [][NextHarmonize]_vars

\* the catalog page once the inventory has been loaded: loadInventory emptied the
\* two maps and selected the first asset, and the product effect ran for it
FirstSlug == <<"a">>

InitCatalog ==
  /\ NoDecode
  /\ NoTextures
  /\ NoScene("idle", Status("idle", <<>>, FALSE))
  /\ NoRemoval
  /\ NoFilling
  /\ NoPool
  /\ NoHarmonize
  /\ selectedSlug = FirstSlug
  /\ productStatusBySlug = CachePut(EmptyMap, FirstSlug, "loading")
  /\ productsBySlug = EmptyMap
  /\ productFetches = <<[slug |-> FirstSlug, mounted |-> TRUE, state |-> "pending"]>>

NextCatalog ==
  \/ SelectSlug
  \/ ProductLoaded
  \/ ProductFailed
  \/ ProductAborted

SpecCatalog == InitCatalog /\ [][NextCatalog]_vars

\* the pool on lists of no item up to MaxItems items, from the moment worker
\* awaits its runners
MaxItems == 9           \* items handed to worker

PoolItems(n) == [i \in 1..n |-> <<"item", i>>]

InitPool ==
  /\ NoDecode
  /\ NoTextures
  /\ NoScene("idle", Status("idle", <<>>, FALSE))
  /\ NoRemoval
  /\ NoFilling
  /\ NoHarmonize
  /\ NoCatalog
  /\ \E n \in 0..MaxItems : \E p \in {Worker(PoolItems(n))} :
       /\ poolItems = p.items
       /\ poolIndex = p.index
       /\ poolResults = p.results
       /\ poolCalls = p.calls
       /\ runners = p.runners
       /\ workerState = p.worker

NextPool ==
  \/ HandlerResolves
  \/ HandlerRejects
  \/ MainExits

SpecPool == InitPool /\ [][NextPool]_vars

\* the flood fill a step at a time, on every image the function can read
InitFill ==
  /\ NoDecode
  /\ NoTextures
  /\ NoScene("idle", Status("idle", <<>>, FALSE))
  /\ NoHarmonize
  /\ NoCatalog
  /\ NoPool
  /\ image \in ImageInputs \ UnreadableImages
  /\ removals = <<>>
  /\ filling = NewFill(image.width * image.height)
  /\ fillPhase = "seeding"
  /\ fillBackdrop = EstimateBackdropFromCorners(image.data, image.width, image.height)

NextFill ==
  \/ SeedFill
  \/ FillStep
  \/ FillEnds

SpecFill == InitFill /\ [][NextFill]_vars

\* the function runs on: a step of the fill that can be taken is taken
SpecFillFair == SpecFill /\ WF_vars(NextFill)

(***************************************************************************)
(* Properties of the geometry reconstructor (SpecDecode).                  *)
(***************************************************************************)
\* the face view the record selects, and the element its first index lies at
SelectedFaces == IF decIn.p.useFaces16 THEN decIn.v.faces16 ELSE decIn.v.faces32
FaceStart == FloorDiv(decIn.p.faceByteOffset, IF decIn.p.useFaces16 THEN 2 ELSE 4)
RawIndexAt(i) == SelectedFaces[FaceStart + i]

\* C1: every index of a reconstructed index buffer is below the record's vertexCnt,
\* whatever the face buffer holds; a raw index >= vertexCnt is replaced by 0 and a
\* raw index below vertexCnt is kept.
C1_IndicesBelowVertexCnt ==
  decOut.kind = "geometry" =>
    /\ Len(decOut.indices) = 3 * decIn.p.faceCnt
    /\ \A i \in 1..Len(decOut.indices) :
         /\ decOut.indices[i] < decIn.p.vertexCnt
         /\ RawIndexAt(i) >= decIn.p.vertexCnt => decOut.indices[i] = 0
         /\ RawIndexAt(i) < decIn.p.vertexCnt => decOut.indices[i] = RawIndexAt(i)

\* a geometry was built from a face buffer that holds an index out of range
C1_Witness ==
  /\ decOut.kind = "geometry"
  /\ \E i \in 1..Len(decOut.indices) : RawIndexAt(i) >= decIn.p.vertexCnt

\* elements start .. start + count - 1 of a view of `length` elements: some element
\* lies outside the view
ReadsPast(start, count, length) ==
  \E e \in start..(start + count - 1) : e < 0 \/ e >= length

VertexBytes ==
  IF Abs(decIn.p.quantVertexMax) <= Int8Max THEN 1
  ELSE IF Abs(decIn.p.quantVertexMax) <= Int16Max THEN 2 ELSE 4

VertexPast ==
  ReadsPast(FloorDiv(decIn.p.vertexByteOffset, VertexBytes), 3 * decIn.p.vertexCnt,
            (4 * VertexBufferWords) \div VertexBytes)

TransformPast ==
  ReadsPast(FloorDiv(decIn.p.transformByteOffset, 4), MatrixFloats, decIn.v.transformsLen)

FacePast ==
  /\ ~IsNullView(SelectedFaces)
  /\ ReadsPast(FaceStart, 3 * decIn.p.faceCnt, Len(SelectedFaces))

\* the record has UVs to read and their range leaves the UV view
UvPast ==
  /\ decIn.p.uv0ByteOffset >= 0
  /\ ~decIn.v.uvsNull
  /\ IF decIn.p.quantUv0Max = 0
     THEN ReadsPast(FloorDiv(decIn.p.uv0ByteOffset, 4), 2 * decIn.p.vertexCnt,
                    decIn.v.uvsF32Len)
     ELSE ReadsPast(FloorDiv(decIn.p.uv0ByteOffset, 2), 2 * decIn.p.vertexCnt,
                    decIn.v.uvsU16Len)

\* C3 as stated: decodeMeshGeometry returns null whenever the vertex range, the face
\* range, the transform range or the UV0 range would read past its buffer.
C3_NullOnAnyRangePast ==
  (decOut # Pending /\ (VertexPast \/ FacePast \/ TransformPast \/ UvPast))
    => decOut = NoGeometry

\* C3 amended: decodeMeshGeometry returns null whenever the vertex range, the face
\* range or the transform range would read past its buffer; a UV0 range that would
\* read past the UV view does not make it return null: when the other ranges fit and
\* the face view exists, the geometry is produced with a zero-filled UV attribute.
C3_NullOnVertexFaceTransformPast ==
  decOut # Pending =>
    /\ (VertexPast \/ FacePast \/ TransformPast) => decOut = NoGeometry
    /\ (UvPast /\ ~VertexPast /\ ~FacePast /\ ~TransformPast /\ ~IsNullView(SelectedFaces))
         => (decOut.kind = "geometry" /\ decOut.uv = "zero")
    /\ decOut.kind = "geometry" => (decOut.uv = "zero" <=> UvPast)

\* a record whose vertex range alone leaves the vertex view was decoded to null
C3_Witness ==
  /\ decOut = NoGeometry
  /\ VertexPast
  /\ ~FacePast /\ ~TransformPast /\ ~UvPast /\ ~IsNullView(SelectedFaces)
  /\ decIn.p.vertexByteOffset >= 0

(***************************************************************************)
(* Properties of the scene load (SpecLoad).                                *)
(***************************************************************************)
\* buildScene returned
SceneLoaded == pc \in {"catalog", "done", "catalogFailed"}

\* the "Loaded N meshes (M skipped)" status buildScene reported
LoadedReports == SelectSeq(loadLog, LAMBDA st : st.kind = "loaded")

PositiveCounts(r) == r.faceCnt > 0 /\ r.vertexCnt > 0

RawRecords == input.table.records

\* the table's records with positive counts that the reconstructor turns into geometry,
\* and those it returns null for
DecodableRecords ==
  {k \in 1..Len(RawRecords) :
     PositiveCounts(RawRecords[k])
     /\ DecodeMeshGeometry(RawRecords[k], input.views).kind = "geometry"}
UndecodableRecords ==
  {k \in 1..Len(RawRecords) :
     PositiveCounts(RawRecords[k])
     /\ DecodeMeshGeometry(RawRecords[k], input.views).kind = "null"}
PlaceholderRecords == {k \in 1..Len(RawRecords) : ~PositiveCounts(RawRecords[k])}

\* a table of two valid records and one zero-vertex record, in any order
TwoValidOneZeroVertex ==
  /\ Len(RawRecords) = 3
  /\ \E z \in 1..3 :
       /\ RawRecords[z] = RZeroVertex
       /\ \A k \in 1..3 \ {z} : RawRecords[k] \in {RValid, RValidB}

\* C2 as stated: the load builds one mesh per valid record and reports as skipped
\* every record that produced no mesh, zero-vertex records included; two valid
\* records and one zero-vertex record end with 2 meshes built and 1 reported skipped.
C2_SkippedIncludesZeroVertex ==
  SceneLoaded =>
    /\ Len(LoadedReports) = 1
    /\ Len(meshes) = Cardinality(DecodableRecords)
    /\ LoadedReports[1].arg = <<Len(meshes), Len(RawRecords) - Len(meshes)>>
    /\ TwoValidOneZeroVertex => LoadedReports[1].arg = <<2, 1>>

\* C2 amended: the load builds one mesh per record that has positive counts and that
\* the reconstructor decodes, and reports as skipped exactly the records with positive
\* counts for which the reconstructor returned null; a record with a non-positive
\* vertex or face count is dropped by parseMeshProps and is counted neither as built
\* nor as skipped: two valid records and one zero-vertex record end with 2 meshes
\* built and 0 reported skipped.
C2_SkippedExcludesPlaceholders ==
  SceneLoaded =>
    /\ Len(LoadedReports) = 1
    /\ Len(meshes) = Cardinality(DecodableRecords)
    /\ LoadedReports[1].arg = <<Cardinality(DecodableRecords), Cardinality(UndecodableRecords)>>
    /\ builtMeshes + skippedMeshes = Len(RawRecords) - Cardinality(PlaceholderRecords)
    /\ TwoValidOneZeroVertex => LoadedReports[1].arg = <<2, 0>>

\* a scene of two valid records and one zero-vertex record was loaded
C2_Witness == SceneLoaded /\ TwoValidOneZeroVertex /\ Len(meshes) = 2

\* the decode loop is over (or never ran: the load aborted before it)
DecodeOver == SceneLoaded

\* C4: in the decode loop a malformed record never raises an error: the reconstructor
\* returns a geometry or null, a record it returns null for is counted as skipped, and
\* every later record is still decoded, so that the loop accounts for every parsed
\* record.
C4_DecodeLoopNeverThrows ==
  /\ \A i \in 1..Len(loadLog) : loadLog[i].error => loadLog[i].arg[1] # "type-error"
  /\ pc = "aborted" => outcomes = <<>>
  /\ builtMeshes = Len(SelectSeq(outcomes, LAMBDA o : o = "built"))
  /\ skippedMeshes = Len(SelectSeq(outcomes, LAMBDA o : o = "skipped"))
  /\ builtMeshes = Len(meshes)
  /\ pc = "decoding" => Len(outcomes) = nextRecord - 1
  /\ DecodeOver =>
       /\ Len(outcomes) = Len(meshProps)
       /\ \A i \in 1..Len(meshProps) :
            outcomes[i] = "skipped"
              <=> DecodeMeshGeometry(meshProps[i], input.views) = NoGeometry

\* a load in which a record that wants the missing 16-bit face view was skipped and
\* the record after it was built
C4_Witness ==
  /\ DecodeOver
  /\ IsNullView(input.views.faces16)
  /\ \E i \in 1..(Len(meshProps) - 1) :
       /\ meshProps[i].useFaces16
       /\ outcomes[i] = "skipped"
       /\ outcomes[i + 1] = "built"

LoadErrors == SelectSeq(loadLog, LAMBDA st : st.error)

FetchFailed ==
  /\ pc = "aborted"
  /\ loadLog[Len(loadLog)].arg[1] = "request-failed"

StrideBelowMinimum ==
  /\ pc # "fetching"
  /\ ~FetchFailed
  /\ input.table.stride < MinStride

\* C5: when the stride word is below 21, or the manifest or a required buffer fails to
\* fetch, the load aborts with one terminal error status: bootstrap reports exactly
\* one error, as its last status, no mesh is added to the scene, no material is built
\* and no countertop target state is set.
C5_AbortLeavesNothingBuilt ==
  (StrideBelowMinimum \/ FetchFailed) =>
    /\ pc = "aborted"
    /\ Len(LoadErrors) = 1
    /\ loadLog[Len(loadLog)].error
    /\ loadLog[Len(loadLog)].arg[1] \in {"unsupported-stride", "request-failed"}
    /\ meshes = <<>>
    /\ builtMeshes = 0
    /\ materialByIndex = EmptyMap
    /\ countertop = NoCountertop
    /\ \A i \in 1..Len(calls) : calls[i].state \in {"empty", "no-targets"}

\* a load of a table of stride 20 was aborted, and an apply made after it found no
\* targets
C5_Witness ==
  /\ pc = "aborted"
  /\ input.table.stride = MinStride - 1
  /\ Len(input.table.records) > 0
  /\ status.kind = "no-targets"

(***************************************************************************)
(* Properties of texture resolution (SpecTex).                             *)
(***************************************************************************)
\* C6: within one resolution the candidates are attempted strictly in list order with
\* at most one attempt outstanding: attempt k+1 starts only after attempt k failed, the
\* first success resolves with that texture and no later candidate is attempted, and
\* the resolution yields null exactly when every candidate failed.
C6_SequentialFallback ==
  \A c \in 1..Len(chains) :
    LET ch == chains[c]
        n == Len(ch.attempted)
    IN /\ ch.maxInFlight <= 1
       /\ Cardinality(ch.inFlight) <= 1
       /\ n <= Len(ch.candidates)
       /\ \A i \in 1..n : ch.attempted[i] = ch.candidates[i]
       /\ \A i \in 1..(n - 1) : i \in ch.failed
       /\ ch.state = "pending" => (ch.inFlight = {n} /\ n \notin ch.failed)
       /\ (ch.state = "resolved" /\ ch.value # 0) =>
            (ch.value = n /\ ch.inFlight = {} /\ ch.failed = 1..(n - 1))
       /\ (ch.state = "resolved" /\ ch.value = 0) =>
            (n = Len(ch.candidates) /\ ch.inFlight = {} /\ ch.failed = 1..n)

\* one resolution succeeded at its second candidate while a later candidate was left
\* untried, and another one failed on every candidate
C6_Witness ==
  /\ \E c \in 1..Len(chains) :
       /\ chains[c].state = "resolved"
       /\ chains[c].value = 2
       /\ Len(chains[c].attempted) < Len(chains[c].candidates)
  /\ \E c \in 1..Len(chains) : chains[c].state = "resolved" /\ chains[c].value = 0

ChainsOf(key) == {c \in 1..Len(chains) : chains[c].key = key}

Caches == [k \in DOMAIN sceneTextureCache \cup DOMAIN externalTextureCache |->
             IF k \in DOMAIN sceneTextureCache THEN sceneTextureCache[k]
             ELSE externalTextureCache[k]]

\* C7: all requests for one cache key, made while its resolution is in flight or after
\* it finished, share that resolution: the candidate chain of a key is started exactly
\* once however often the key is requested, the cache keeps pointing at it, and no
\* candidate of the key is attempted twice.
C7_OneResolutionPerKey ==
  /\ DOMAIN Caches = DOMAIN requests
  /\ \A key \in DOMAIN requests :
       /\ requests[key] >= 1
       /\ Cardinality(ChainsOf(key)) = 1
       /\ ChainsOf(key) = {Caches[key]}
       /\ \A i, j \in 1..Len(chains[Caches[key]].attempted) :
            chains[Caches[key]].attempted[i] = chains[Caches[key]].attempted[j] => i = j
  /\ Len(chains) = Cardinality(DOMAIN requests)

\* a key was requested three times and its one resolution finished after a failed
\* candidate
C7_Witness ==
  \E key \in DOMAIN requests :
    /\ requests[key] = 3
    /\ chains[Caches[key]].state = "resolved"
    /\ chains[Caches[key]].failed # {}

\* the resolution ended with the texture of the raw-path candidate
\* (`${sceneBaseUrl}${id}.${extension}`, the last of the list)
ResolvedAtRawPath(ch) ==
  /\ ch.key[1] = "scene"
  /\ ch.state = "resolved"
  /\ ch.value # 0
  /\ ch.candidates[ch.value][1] = "scene"

\* the advertised formats of a cache key that end in /std and are neither of the two
\* fallback folders
ExtraStdFormats(key) ==
  {f \in {key[4][i] : i \in 1..Len(key[4])} :
     f[2] = "std" /\ f[1] \notin {"small", "large"}}

\* C8 as stated: a scene texture whose image exists only at the raw-path candidate
\* resolves after exactly 1 failed candidate attempt.
C8_RawPathAfterOneFailure ==
  \A c \in 1..Len(chains) :
    ResolvedAtRawPath(chains[c]) => Cardinality(chains[c].failed) = 1

\* C8 amended: a scene texture whose image exists only at the raw-path candidate
\* resolves after every other candidate failed once: at least 2 failed attempts
\* (img/small/std and img/large/std), plus one for each distinct advertised /std format
\* other than small/std and large/std.
C8_RawPathAfterAllOthersFailed ==
  \A c \in 1..Len(chains) :
    ResolvedAtRawPath(chains[c]) =>
      /\ chains[c].value = Len(chains[c].candidates)
      /\ Cardinality(chains[c].failed) = Len(chains[c].candidates) - 1
      /\ Cardinality(chains[c].failed) = 2 + Cardinality(ExtraStdFormats(chains[c].key))
      /\ Len(chains[c].attempted) = Cardinality(chains[c].failed) + 1

\* a texture without advertised formats and one with an extra /std format were both
\* resolved at their raw path
C8_Witness ==
  /\ \E c \in 1..Len(chains) :
       ResolvedAtRawPath(chains[c]) /\ ExtraStdFormats(chains[c].key) = {}
  /\ \E c \in 1..Len(chains) :
       ResolvedAtRawPath(chains[c]) /\ ExtraStdFormats(chains[c].key) # {}

(***************************************************************************)
(* Properties of the apply entry point (Spec).                             *)
(***************************************************************************)
\* this step is an applyCountertopTexture call with an id that is non-empty once
\* trimmed, made while no countertop mesh is detected
NoTargetsCall ==
  /\ Len(calls') = Len(calls) + 1
  /\ calls'[Len(calls')].normalized # <<>>
  /\ countertop.meshes = <<>>

\* C9: applyCountertopTexture with a non-empty id (non-empty once trimmed, as the
\* function reads it), called while no countertop mesh is detected, reports the "no
\* targets" status and changes nothing else: no texture fetch is started, and the
\* meshes' materials, normals and UVs, the override-material cache and the harmonized
\* flag are unchanged.
C9_NoTargetsChangesNothing ==
  [][NoTargetsCall =>
       /\ status' = Status("no-targets", <<>>, TRUE)
       /\ calls'[Len(calls')].state = "no-targets"
       /\ UNCHANGED <<chains, externalTextureCache, sceneTextureCache, requests,
                      meshes, materialByIndex, countertop>>]_vars

\* a loaded scene with meshes and no countertop target answered an apply of a real id
\* with "no targets"
C9_Witness ==
  /\ pc = "done"
  /\ Len(meshes) > 0
  /\ countertop.meshes = <<>>
  /\ status = Status("no-targets", <<>>, TRUE)
  /\ \E i \in 1..Len(calls) : calls[i].state = "no-targets" /\ calls[i].normalized = IdX

\* this step ends call i with a failed texture load
LoadFailedStep(i) ==
  /\ i \in 1..Len(calls')
  /\ calls'[i].state = "failed"
  /\ i \in 1..Len(calls) => calls[i].state = "waiting"

\* C10: when the texture fetch of an apply exhausts all candidates, the call reports
\* "could not load" and leaves the visual state as it was: every mesh keeps its
\* material, normals and UVs, no override material is created or re-bound, and
\* harmonization is neither run nor marked as done.
C10_LoadFailureChangesNothing ==
  [][\A i \in 1..Len(calls') :
       LoadFailedStep(i) =>
         /\ status' = Status("could-not-load", calls'[i].normalized, TRUE)
         /\ chains'[calls'[i].chain].value = 0
         /\ chains'[calls'[i].chain].failed = 1..Len(chains'[calls'[i].chain].candidates)
         /\ UNCHANGED <<meshes, materialByIndex, countertop>>]_vars

\* an apply failed to load its texture after an earlier apply had retextured the
\* countertop, whose state is still in place
C10_Witness ==
  /\ status.kind = "could-not-load"
  /\ \E i \in 1..Len(calls) : calls[i].state = "failed"
  /\ countertop.harmonized
  /\ DOMAIN countertop.overrides # {}
  /\ \A i \in 1..Len(countertop.meshes) :
       meshes[countertop.meshes[i]].uv = "projected"

(***************************************************************************)
(* Properties of the retexture engine (Spec).                              *)
(***************************************************************************)
\* the texture of id x (normalized) is the one the countertop shows: its promise is
\* cached and resolved with a texture, a call applied it, and every countertop mesh
\* carries the override of its material index, bound to that texture
AppliedNow(x) ==
  /\ countertop.meshes # <<>>
  /\ <<"external", x>> \in DOMAIN externalTextureCache
  /\ \E i \in 1..Len(calls) : calls[i].state = "applied" /\ calls[i].normalized = x
  /\ LET c == externalTextureCache[<<"external", x>>]
     IN /\ chains[c].state = "resolved"
        /\ chains[c].value # 0
        /\ \A i \in 1..Len(countertop.meshes) :
             LET m == meshes[countertop.meshes[i]]
             IN /\ m.materialIdx \in DOMAIN countertop.overrides
                /\ m.material = countertop.overrides[m.materialIdx].id
                /\ countertop.overrides[m.materialIdx].map = <<"external", c>>

\* this step is an applyCountertopTexture call of the id the countertop shows
ReapplyStep ==
  /\ Len(calls') = Len(calls) + 1
  /\ AppliedNow(calls'[Len(calls')].normalized)

\* C11: after a successful apply of id X, applying X again (the same id once trimmed)
\* ends as "applied" within the call and leaves every mesh's material, normals and
\* UVs, the override materials with their bound texture, the harmonized flag and the
\* texture caches as they were, and hands no image to a loader.
C11_ReapplyChangesNothing ==
  [][ReapplyStep =>
       /\ calls'[Len(calls')].state = "applied"
       /\ calls'[Len(calls')].immediate
       /\ status' = Status("applied", calls'[Len(calls')].normalized, FALSE)
       /\ UNCHANGED <<meshes, countertop, materialByIndex, chains,
                      externalTextureCache, sceneTextureCache>>]_vars

\* id "x" was applied after its texture loaded, then applied again (as " x") when
\* the texture was there already: one chain, asked for twice
C11_Witness ==
  /\ Len(calls) = 2
  /\ calls[1].state = "applied" /\ ~calls[1].immediate /\ calls[1].id = IdX
  /\ calls[2].state = "applied" /\ calls[2].immediate /\ calls[2].id = IdXPadded
  /\ Len(chains) = 1
  /\ requests[<<"external", IdX>>] = 2
  /\ AppliedNow(IdX)

(***************************************************************************)
(* The retexture state across scene loads (SpecReload).                    *)
(***************************************************************************)
\* the step in which a call of buildScene returns
BuildSceneCompletes ==
  /\ pc \in {"fetching", "exterior", "materials", "decoding"}
  /\ pc' \in {"catalog", "reloaded"}

\* the nodes a scene names as targets
TargetNodeIds(scene) ==
  ExtractCountertopNodeIds(scene.nodes, ExtractCountertopMaterialNames(scene.config))

\* the meshes (positions in the render graph) the load in progress built for the nodes
\* the scene names as targets
TargetMeshesOfLoad(ms, scene, load) ==
  {m \in DOMAIN ms : ms[m].load = load /\ ms[m].nodeId \in Range(TargetNodeIds(scene))}

IsOverride(material) == material[1] = "override"

\* mesh m has an override material that was created during an earlier load than m
HasEarlierOverride(m) == IsOverride(m.material) /\ m.material[3] < m.load

\* C12: when a call of buildScene returns, the override-material cache is empty, the
\* normals-harmonized flag is false and the countertop node ids, meshes and material
\* indexes are those of the scene just loaded; and no mesh ever has an override
\* material created for an earlier scene
C12_SceneLoadResetsRetexture ==
  /\ [](\A m \in DOMAIN meshes : ~HasEarlierOverride(meshes[m]))
  /\ [][BuildSceneCompletes =>
         /\ DOMAIN countertop'.overrides = {}
         /\ ~countertop'.harmonized
         /\ countertop'.nodeIds = TargetNodeIds(input')
         /\ Range(countertop'.meshes) = TargetMeshesOfLoad(meshes', input', loads')
         /\ Range(countertop'.materialIndexes)
              = {meshes'[m].materialIdx : m \in TargetMeshesOfLoad(meshes', input', loads')}
      ]_vars

\* a second load has returned over a scene whose countertop meshes had overrides, it
\* has targets of its own, and one of them was retextured since
C12_Witness ==
  /\ pc = "reloaded"
  /\ \E m \in DOMAIN meshes : meshes[m].load = 1 /\ IsOverride(meshes[m].material)
  /\ \E k \in DOMAIN countertop.meshes :
       /\ meshes[countertop.meshes[k]].load = 2
       /\ IsOverride(meshes[countertop.meshes[k]].material)

\* call i of applyCountertopTexture goes on after its await in this step, and since it
\* began buildScene was called again and has returned
StaleApplyResumes(i) ==
  /\ calls[i].state = "waiting"
  /\ calls'[i].state # "waiting"
  /\ calls[i].load < loads
  /\ pc = "reloaded"

TerminalStatuses == {"applied", "no-targets", "could-not-load"}

\* the calls that were given a texture identifier
CallsWithId == {i \in DOMAIN calls : calls[i].normalized # <<>>}

Ended(call) == call.state # "waiting"

TerminalsOf(call) ==
  {k \in DOMAIN call.reported : call.reported[k] \in TerminalStatuses}

\* C14 as stated: the first status of a call with an identifier is the loading status,
\* it reports at most one terminal status, and exactly one once it has ended
C14_LoadingThenOneTerminal ==
  \A i \in CallsWithId :
    /\ Len(calls[i].reported) > 0
    /\ calls[i].reported[1] = "applying"
    /\ Cardinality(TerminalsOf(calls[i])) <= 1
    /\ Ended(calls[i]) => Cardinality(TerminalsOf(calls[i])) = 1

\* a call with an identifier begins in this step
CallBegins ==
  /\ Len(calls') = Len(calls) + 1
  /\ calls'[Len(calls')].normalized # <<>>

\* C14, amended: a call with an identifier that finds no countertop mesh reports
\* no-targets and nothing else; any other call reports the loading status first and,
\* once its texture promise is settled, exactly one of applied and could-not-load as
\* its last status
C14_OneTerminalLoadingUnlessNoTargets ==
  /\ [](\A i \in CallsWithId :
         \/ calls[i].reported = <<"no-targets">>
         \/ ~Ended(calls[i]) /\ calls[i].reported = <<"applying">>
         \/ Ended(calls[i]) /\ calls[i].reported \in {<<"applying", "applied">>,
                                                      <<"applying", "could-not-load">>})
  /\ [][CallBegins =>
          (calls'[Len(calls')].reported = <<"no-targets">>
             <=> Len(countertop.meshes) = 0)]_vars

\* a call that reported no-targets alone and a call that went from loading to applied
C14_Witness ==
  /\ \E i \in CallsWithId : calls[i].reported = <<"no-targets">>
  /\ \E i \in CallsWithId : calls[i].reported = <<"applying", "applied">>

(***************************************************************************)
(* The override materials after a successful apply (Spec).                 *)
(***************************************************************************)
\* the calls of applyCountertopTexture that report "applied" in this step
AppliedInStep == {i \in DOMAIN calls' : calls'[i].state = "applied"
                                       /\ (i \notin DOMAIN calls \/ calls[i].state # "applied")}

CountertopMeshes(ct) == Range(ct.meshes)

\* the side of the material the scene gave material index idx
OriginalSide(materials, idx) ==
  IF idx \in DOMAIN materials THEN materials[idx].side ELSE "front"

\* the cache holds for idx an unlit, opaque override with the texture of chain and the
\* side of the original material, and no other index has the same override
OverrideAsClaimed(overrides, materials, idx, chain) ==
  /\ idx \in DOMAIN overrides
  /\ overrides[idx].type = "basic"
  /\ overrides[idx].map[1] = "external"
  /\ overrides[idx].map[2] = chain
  /\ ~overrides[idx].transparent
  /\ overrides[idx].opacity = 1
  /\ overrides[idx].side = OriginalSide(materials, idx)
  /\ \A other \in DOMAIN overrides : other # idx => overrides[other].id # overrides[idx].id

\* C15 as stated: after a successful apply every material index of a countertop mesh
\* has one cached override as claimed, and every mesh of the scene with that index has it
\* as its material
C15_OverridePerIndexOnEveryMesh ==
  [][\A i \in AppliedInStep :
       \A c \in CountertopMeshes(countertop') :
         LET idx == meshes'[c].materialIdx
         IN /\ OverrideAsClaimed(countertop'.overrides, materialByIndex', idx,
                                  calls'[i].chain)
            /\ \A m \in DOMAIN meshes' :
                 meshes'[m].materialIdx = idx
                   => meshes'[m].material = countertop'.overrides[idx].id]_vars

\* C15, amended: after a successful apply every material index of a countertop mesh
\* has one cached override as claimed, every countertop mesh with that index has it as
\* its material, and the other meshes keep the material they had
C15_OverridePerIndexOnCountertopMeshes ==
  [][\A i \in AppliedInStep :
       /\ \A c \in CountertopMeshes(countertop') :
            LET idx == meshes'[c].materialIdx
            IN /\ OverrideAsClaimed(countertop'.overrides, materialByIndex', idx,
                                     calls'[i].chain)
               /\ meshes'[c].material = countertop'.overrides[idx].id
       /\ \A m \in DOMAIN meshes' \ CountertopMeshes(countertop') :
            meshes'[m].material = meshes[m].material]_vars

\* a second texture was applied to a scene in which a mesh that is no countertop mesh
\* shares the material index of a countertop mesh
C15_Witness ==
  /\ \E i, j \in DOMAIN calls :
       /\ calls[i].state = "applied" /\ calls[j].state = "applied"
       /\ calls[i].chain # calls[j].chain
  /\ \E c \in CountertopMeshes(countertop) :
       \E m \in DOMAIN meshes \ CountertopMeshes(countertop) :
         /\ meshes[m].materialIdx = meshes[c].materialIdx
         /\ IsOverride(meshes[c].material)

(***************************************************************************)
(* Textures that fail during the scene load (SpecScene).                   *)
(***************************************************************************)
\* buildScene is suspended on textures
LoadAwaitsTextures == pc \in {"exterior", "materials"}

BuildSceneReturned == pc \in {"catalog", "done", "catalogFailed"}

\* the chain that loads the texture a reference names
ChainOfRef(ref) == sceneTextureCache[SceneCacheKey(ref.def)]

\* a reference to a texture (or an atlas) of the manifest all of whose candidates failed
AllCandidatesFailed(ref) ==
  /\ ref.kind \in {"plain", "atlas"}
  /\ SceneCacheKey(ref.def) \in DOMAIN sceneTextureCache
  /\ chains[ChainOfRef(ref)].state = "resolved"
  /\ chains[ChainOfRef(ref)].value = 0
  /\ chains[ChainOfRef(ref)].failed = DOMAIN chains[ChainOfRef(ref)].candidates

\* the indexes the mesh table uses for which the manifest has a material
ManifestIndexes ==
  {idx \in UsedMaterialIndexes(meshProps) : idx + 1 \in DOMAIN input.manifest.materials}

\* C16: a texture, atlas or sky whose candidates all fail neither blocks nor aborts the
\* scene load: while buildScene awaits textures, it awaits a promise that is pending and
\* has a request in flight, and it throws nothing; once it returned, the material of a
\* failed texture has no map, the backdrop of a failed sky is off with exterior mode
\* "none", every record was decoded and the loaded status was reported
C16_FailedTextureNeverBlocksLoad ==
  /\ [](LoadAwaitsTextures =>
          \E k \in DOMAIN jobs :
            /\ jobs[k].chain # 0
            /\ chains[jobs[k].chain].state = "pending"
            /\ chains[jobs[k].chain].inFlight # {})
  /\ [][LoadAwaitsTextures => pc' # "aborted"]_vars
  /\ [](BuildSceneReturned =>
          /\ \A idx \in ManifestIndexes :
               AllCandidatesFailed(input.manifest.materials[idx + 1].texture)
                 => /\ idx \in DOMAIN materialByIndex
                    /\ materialByIndex[idx].map = NoTexture
          /\ AllCandidatesFailed(input.manifest.sky.texture)
               => exterior.mode = "none" /\ exterior.skyMap = NoTexture
          /\ Len(outcomes) = Len(meshProps)
          /\ \E k \in DOMAIN loadLog :
               loadLog[k].kind = "loaded" /\ loadLog[k].arg = <<builtMeshes, skippedMeshes>>
          /\ \A k \in DOMAIN loadLog :
               loadLog[k].kind = "load-error" => loadLog[k].arg[2] = "textures")

\* the load returned although the sky, an atlas and a material texture failed every
\* candidate
C16_Witness ==
  /\ BuildSceneReturned
  /\ AllCandidatesFailed(input.manifest.sky.texture)
  /\ \E idx \in ManifestIndexes :
       /\ input.manifest.materials[idx + 1].texture.kind = "atlas"
       /\ AllCandidatesFailed(input.manifest.materials[idx + 1].texture)
  /\ \E idx \in ManifestIndexes :
       /\ input.manifest.materials[idx + 1].texture.kind = "plain"
       /\ AllCandidatesFailed(input.manifest.materials[idx + 1].texture)

(***************************************************************************)
(* The sky yaw (SpecScene).                                                *)
(***************************************************************************)
AuthoredYaw == input.manifest.sky.yaw

\* the authored yaws in radians, as fractions of pi
YawInPi ==
  IF ~AuthoredYaw.finite THEN [num |-> 0, den |-> 1]
  ELSE CASE AuthoredYaw.degrees = 0 -> [num |-> 0, den |-> 1]
         [] AuthoredYaw.degrees = 90 -> [num |-> 1, den |-> 2]
         [] AuthoredYaw.degrees = -45 -> [num |-> -1, den |-> 4]
         [] AuthoredYaw.degrees = 180 -> [num |-> 1, den |-> 1]

\* the quarter turn about X that takes the Y-up sky to Z-up, then the yaw about Z
YawAfterUpAxis ==
  <<[axis |-> "x", angle |-> [num |-> 1, den |-> 2]], [axis |-> "z", angle |-> YawInPi]>>

\* C17 as stated: with a sky, the sky mesh is oriented by the yaw applied after the
\* up-axis rotation and the rotation of the environment reflection map is zero
C17_YawRotatesOnlySky ==
  exterior.mode = "sky" =>
    /\ exterior.orientation = YawAfterUpAxis
    /\ exterior.environmentRotation.num = 0

\* C17, amended: with a sky, the sky mesh is oriented by the yaw applied after the
\* up-axis rotation, the background rotation is zero, and the rotation of the
\* environment reflection map is the same yaw about Z when the build has
\* scene.environmentRotation, and zero otherwise or when no yaw is authored
C17_YawRotatesSkyAndEnvironment ==
  exterior.mode = "sky" =>
    /\ exterior.orientation = YawAfterUpAxis
    /\ exterior.backgroundRotation.num = 0
    /\ exterior.environmentRotation
         = IF input.manifest.rotations THEN YawInPi ELSE [num |-> 0, den |-> 1]

\* a sky with an authored quarter-turn yaw in a build with scene.environmentRotation
C17_Witness ==
  /\ exterior.mode = "sky"
  /\ AuthoredYaw = Yaw(90)
  /\ input.manifest.rotations
  /\ exterior.environmentRotation.num # 0

(***************************************************************************)
(* Target selection (SpecSelect).                                          *)
(***************************************************************************)
\* a node and the nodes below it, at any depth
RECURSIVE NodesBelow(_)
NodesBelow(node) ==
  {node} \cup UNION {NodesBelow(node.children[k]) : k \in DOMAIN node.children}

NodesOfScene == UNION {NodesBelow(input.nodes[k]) : k \in DOMAIN input.nodes}

\* the material names of the configured target groups, or of the group `default` when
\* no selection is configured
NamesOfTargetGroups(default) ==
  LET groups == IF input.config.selection.isArray
                THEN Range(input.config.selection.groups) ELSE {default}
  IN UNION {Range(input.config.targetGroups[g].materials) :
              g \in {x \in groups \cap DOMAIN input.config.targetGroups :
                       input.config.targetGroups[x].materialsIsArray}} \ {<<>>}

\* the nodes whose brace-delimited hint is one of the names
HintedNodes(names) == {n \in NodesOfScene : n.isObject /\ ConfigMaterialName(n) \in names}

\* the countertop meshes are the decoded meshes of the countertop nodes, and the
\* countertop material indexes are the material indexes of those meshes
MeshesAndIndexesFollowNodes ==
  /\ Range(countertop.meshes)
       = {m \in DOMAIN meshes : meshes[m].nodeId \in Range(countertop.nodeIds)}
  /\ Range(countertop.materialIndexes)
       = {meshes[m].materialIdx : m \in Range(countertop.meshes)}

FillRan(i) == removals[i].fill # NoFill

MaskOf(fill) == {index \in DOMAIN fill.backgroundMask : fill.backgroundMask[index] = 1}

\* the pixels of the image that qualify as backdrop
QualifyingPixels ==
  UNION {{index \in 0..(image.width * image.height - 1) :
            \/ image.data[index + 1].alpha < 8
            \/ WithinThreshold(DistanceSquared(image.data[index + 1], backdrop.red,
                                               backdrop.green, backdrop.blue),
                               backdrop.p85Squared)} :
           backdrop \in {EstimateBackdropFromCorners(image.data, image.width,
                                                     image.height)}}

OnBorder(index) ==
  \/ index % image.width \in {0, image.width - 1}
  \/ index \div image.width \in {0, image.height - 1}

\* side by side in a row, or one above the other
FourConnected(a, b) ==
  \/ a \div image.width = b \div image.width /\ Abs(a - b) = 1
  \/ Abs(a - b) = image.width

\* the pixels of within that a 4-connected path inside within joins to reached
RECURSIVE ConnectedTo(_, _)
ConnectedTo(reached, within) ==
  CHOOSE all \in
    {IF \A index \in within \ have : \A other \in have : ~FourConnected(index, other)
     THEN have
     ELSE ConnectedTo(have \cup {index \in within :
                                   \E other \in have : FourConnected(index, other)},
                      within) :
       have \in {reached}} : TRUE

ConnectedBackground ==
  CHOOSE all \in
    {ConnectedTo({index \in qualifying : OnBorder(index)}, qualifying) :
       qualifying \in {QualifyingPixels}} : TRUE

\* C19: whenever the flood fill ran on the image, the pixels it marked
\* background are exactly the qualifying pixels (alpha < 8, or colour
\* distance to the backdrop estimate within the threshold) joined to a
\* qualifying border pixel by a 4-connected path of qualifying pixels; and
\* every run on the same image left the same mask.
C19_MaskIsBorderConnectedBackdrop ==
  (\E i \in DOMAIN removals : FillRan(i)) =>
    \A expected \in {ConnectedBackground} :
      \A i \in DOMAIN removals :
        /\ FillRan(i)
        /\ MaskOf(removals[i].fill) = expected
        /\ removals[i].fill.backgroundMask = removals[1].fill.backgroundMask

\* the fill ran twice on an image with a qualifying pixel that no path reaches
\* (it stays foreground), an inner pixel that a path reaches, and a
\* transparent pixel of a far colour in the mask
C19_Witness ==
  /\ Len(removals) = 2
  /\ FillRan(1) /\ FillRan(2)
  /\ \E index \in QualifyingPixels : removals[2].fill.backgroundMask[index] = 0
  /\ \E index \in MaskOf(removals[2].fill) : ~OnBorder(index)
  /\ \E index \in MaskOf(removals[2].fill) :
       /\ image.data[index + 1].alpha < 8
       /\ image.data[index + 1].red = 90

ForegroundOf(fill) ==
  {index \in DOMAIN fill.backgroundMask : fill.backgroundMask[index] = 0}

Least(S) == CHOOSE n \in S : \A o \in S : n <= o

Greatest(S) == CHOOSE n \in S : \A o \in S : n >= o

\* the bounding box of a non-empty set of pixels, grown by margin on every
\* side and cut at the image's edges
BoxAround(pixels, margin) ==
  LET xs == {index % image.width : index \in pixels}
      ys == {index \div image.width : index \in pixels}
      left == Max(0, Least(xs) - margin)
      right == Min(image.width - 1, Greatest(xs) + margin)
      top == Max(0, Least(ys) - margin)
      bottom == Min(image.height - 1, Greatest(ys) + margin)
  IN [minX |-> left, minY |-> top,
      cropWidth |-> right - left + 1, cropHeight |-> bottom - top + 1]

\* foreground under 4% of the image (none at all included)
UnderFourPercent(fill) ==
  Cardinality(ForegroundOf(fill)) * 100 < 4 * image.width * image.height

SmallerThan8x8(box) == box.cropWidth < 8 \/ box.cropHeight < 8

CannotBeRead == image.width = 0 \/ image.height = 0 \/ ~image.context \/ ~image.readable

CropMargin == IF image.width < 200 \/ image.height < 200 THEN 2
              ELSE Min(image.width, image.height) \div 100

C21_HarmonizedOncePerScene ==
  /\ [](\A m \in DOMAIN meshes : meshes[m].normals # "reharmonized")
  /\ [](countertop.harmonized =>
          \A m \in CountertopMeshes(countertop) : meshes[m].normals = "harmonized")
  /\ [][AppliedInStep # {} =>
         /\ countertop'.harmonized
         /\ \A m \in CountertopMeshes(countertop') :
              /\ meshes'[m].normals = "harmonized"
              /\ meshes'[m].uv = "projected"
              /\ countertop.harmonized => meshes[m].normals = "harmonized"
      ]_vars
  /\ [][countertop.harmonized /\ ~countertop'.harmonized => BuildSceneCompletes]_vars
  /\ [][BuildSceneCompletes => ~countertop'.harmonized]_vars

\* the first scene's countertop was harmonized by an apply, the scene was loaded
\* again, and an apply harmonized the second scene's countertop
C21_Witness ==
  /\ pc = "reloaded"
  /\ countertop.harmonized
  /\ \E m \in DOMAIN meshes : meshes[m].load = 1 /\ meshes[m].normals = "harmonized"
  /\ \E m \in CountertopMeshes(countertop) :
       meshes[m].load = 2 /\ meshes[m].normals = "harmonized" /\ meshes[m].uv = "projected"

\* this step is a run of harmonizeCountertopNormals
HarmonizeStep == passes' = passes + 1

SurfaceVertices == UNION {{<<m, i>> : i \in Vertices(surface[m])} : m \in DOMAIN surface}

InVerticalTriangle(ref) == ref[2] \in TopVertexMask(surface[ref[1]], ApplyUpThreshold)

NormalAligned(ref) == UpAligned(surface[ref[1]].normal[ref[2] + 1], ApplyUpThreshold)

NearMeshTop(ref) == QualifiesByHeight(surface[ref[1]], ref[2], ApplyTolerance)

\* C22 as stated: a run of the harmonization treats a vertex as top-facing (its
\* normal becomes the world's up axis) when its normal is within the
\* up-alignment threshold of vertical, or it lies near its mesh's maximum Z, or
\* it belongs to a triangle whose face normal is predominantly vertical; and
\* it leaves the normal of a vertex with none of the three as it was.
C22_TopFacingOnAnyOfThree ==
  [][HarmonizeStep =>
       \A ref \in SurfaceVertices :
         IF NormalAligned(ref) \/ NearMeshTop(ref) \/ InVerticalTriangle(ref)
         THEN surface'[ref[1]].normal[ref[2] + 1] = WorldUp
         ELSE surface'[ref[1]].normal[ref[2] + 1] = surface[ref[1]].normal[ref[2] + 1]
  ]_vars

\* C22 amended: a run of the harmonization treats a vertex as top-facing (its
\* normal becomes the world's up axis) exactly when it belongs to a triangle
\* whose face normal is predominantly vertical, or its normal is within the
\* threshold of vertical and it also lies near its mesh's maximum Z; a vertex
\* that is not top-facing but whose normal is within the threshold gets an
\* averaged normal, upward and within the threshold again; and every other
\* vertex keeps its normal, whatever its height.
C22_TopFacingOnTriangleOrBoth ==
  [][HarmonizeStep =>
       \A ref \in SurfaceVertices :
         IF InVerticalTriangle(ref) \/ (NormalAligned(ref) /\ NearMeshTop(ref))
         THEN surface'[ref[1]].normal[ref[2] + 1] = WorldUp
         ELSE IF NormalAligned(ref)
         THEN /\ surface'[ref[1]].normal[ref[2] + 1][3] > 0
              /\ UpAligned(surface'[ref[1]].normal[ref[2] + 1], ApplyUpThreshold)
         ELSE surface'[ref[1]].normal[ref[2] + 1] = surface[ref[1]].normal[ref[2] + 1]
  ]_vars

\* after one run: a vertex at the top of its mesh still has its level normal, a
\* vertex below the top has an averaged normal that is not the up axis, and a
\* vertex at the top of its mesh has the up axis
C22_Witness ==
  /\ passes = 1
  /\ \E ref \in SurfaceVertices :
       /\ surface[ref[1]].normal[ref[2] + 1] = Front
       /\ surface[ref[1]].position[ref[2] + 1][3] = MeshTopZ(surface[ref[1]])
  /\ \E ref \in SurfaceVertices :
       /\ surface[ref[1]].normal[ref[2] + 1] \notin {WorldUp, Front, Shallow}
       /\ surface[ref[1]].position[ref[2] + 1][3] = 0
  /\ \E ref \in SurfaceVertices :
       /\ surface[ref[1]].normal[ref[2] + 1] = WorldUp
       /\ surface[ref[1]].position[ref[2] + 1][3] = MeshTopZ(surface[ref[1]])

\* the samples of the bucket a vertex that is not skipped falls in
SamplesWith(ref) ==
  LET class(r) == VertexClass(surface[r[1]], r[2], ApplyTolerance, ApplyUpThreshold, TRUE)
      key(r) == BucketKey(surface[r[1]], r[2], class(r), ApplyTolerance)
  IN {SampledWorldNormal(surface[r[1]].normal[r[2] + 1], class(r)) :
        r \in {r \in BucketRefs(surface, ApplyTolerance, ApplyUpThreshold, TRUE) :
                 key(r) = key(ref)}}

\* every bucket of the meshes has a sum AverageWorldNormal computes exactly
ExactBuckets ==
  \A ref \in BucketRefs(surface, ApplyTolerance, ApplyUpThreshold, TRUE) :
    \/ Cardinality(SamplesWith(ref)) = 1
    \/ \A sample \in SamplesWith(ref) : WholeLength(sample) # 0

FaceNormalsAt(mesh, i) ==
  {Direction(Cross(Sub(mesh.position[mesh.index[3 * t + 2] + 1],
                       mesh.position[mesh.index[3 * t + 1] + 1]),
                   Sub(mesh.position[mesh.index[3 * t + 3] + 1],
                       mesh.position[mesh.index[3 * t + 1] + 1]))) :
     t \in {t \in 0..((Len(mesh.index) \div 3) - 1) :
              \E k \in 1..3 : mesh.index[3 * t + k] = i}} \ {Zero}

\* two vertices of different meshes at one world position, each on a face of
\* its mesh that lies in one plane with the other's
OnSharedCoplanarBoundary(first, second) ==
  /\ first[1] # second[1]
  /\ surface[first[1]].position[first[2] + 1] = surface[second[1]].position[second[2] + 1]
  /\ \E a \in FaceNormalsAt(surface[first[1]], first[2]) :
       \E b \in FaceNormalsAt(surface[second[1]], second[2]) : Cross(a, b) = Zero

\* C24: once the meshes are harmonized and their UVs projected, two vertices of
\* different meshes at the same world position on a shared coplanar boundary
\* have the same UV pair.
C24_SharedBoundarySameUv ==
  (passes >= 1 /\ \A m \in DOMAIN surface : surface[m].uv # <<>>) =>
    \A first, second \in SurfaceVertices :
      OnSharedCoplanarBoundary(first, second) =>
        surface[first[1]].uv[first[2] + 1] = surface[second[1]].uv[second[2] + 1]

\* every countertop mesh wears an override material whose map is the texture
\* call j awaited, and the status line names the id of call j
ShowsCall(cs, ct, ms, st, j) ==
  /\ \A k \in DOMAIN ct.meshes :
       /\ ms[ct.meshes[k]].materialIdx \in DOMAIN ct.overrides
       /\ ct.overrides[ms[ct.meshes[k]].materialIdx].map = <<"external", cs[j].chain>>
       /\ ms[ct.meshes[k]].material = ct.overrides[ms[ct.meshes[k]].materialIdx].id
  /\ st = Status("applied", cs[j].normalized, FALSE)

\* C25: when two calls of applyCountertopTexture with different ids have both
\* applied their texture, and the step that settled the second of them to
\* settle found the other issued already, then whichever settled last the
\* countertop meshes show the texture of the call issued last and the status
\* names its id.
C25_LastIssuedWins ==
  [][\A i, j \in DOMAIN calls :
       (/\ i < j
        /\ calls[i].normalized # calls[j].normalized
        /\ "waiting" \in {calls[i].state, calls[j].state}
        /\ calls'[i].state = "applied"
        /\ calls'[j].state = "applied")
       => ShowsCall(calls', countertop', meshes', status', j)
  ]_vars

\* a chain all of whose candidates failed: its promise resolved with null
FailedChain(c) == chains[c].state = "resolved" /\ chains[c].value = 0

FailedKeys == {chains[c].key : c \in {c \in DOMAIN chains : FailedChain(c)}}

\* C26: once every candidate of a key has failed, the failed chain and its
\* cache entry stay as they are, a later call of loadCountertopTexture or
\* loadSceneTexture for the key starts no chain and no attempt, and a later
\* applyCountertopTexture of the id (padded with spaces or not) on a scene with
\* countertop meshes ends at once with the could-not-load status.
C26_FailureCached ==
  [][/\ \A c \in DOMAIN chains : FailedChain(c) => chains'[c] = chains[c]
     /\ \A c \in DOMAIN chains' \ DOMAIN chains : chains'[c].key \notin FailedKeys
     /\ \A key \in FailedKeys \cap DOMAIN externalTextureCache :
          /\ key \in DOMAIN externalTextureCache'
          /\ externalTextureCache'[key] = externalTextureCache[key]
     /\ \A key \in FailedKeys \cap DOMAIN sceneTextureCache :
          /\ key \in DOMAIN sceneTextureCache'
          /\ sceneTextureCache'[key] = sceneTextureCache[key]
     /\ \A key \in FailedKeys :
          Count(requests', key) > Count(requests, key) => chains' = chains
     /\ (/\ Len(calls') = Len(calls) + 1
         /\ calls'[Len(calls')].id \in {IdX, IdXPadded}
         /\ <<"external", IdX>> \in FailedKeys
         /\ Len(countertop.meshes) > 0)
        => /\ calls'[Len(calls')].state = "failed"
           /\ status' = Status("could-not-load", IdX, TRUE)
           /\ chains' = chains
  ]_vars

\* an apply of the padded id found the promise of the id resolved with null:
\* the three candidates were tried once, for an earlier call, and the apply failed
C26_Witness ==
  \E j \in DOMAIN calls :
    /\ calls[j].id = IdXPadded
    /\ calls[j].state = "failed"
    /\ calls[j].immediate
    /\ FailedChain(calls[j].chain)
    /\ Len(chains[calls[j].chain].attempted) = 3
    /\ Count(requests, <<"external", IdX>>) >= 2
    /\ \A c \in DOMAIN chains : chains[c].key = <<"external", IdX>> => c = calls[j].chain

\* C27: a slug's status is "loading" only while a product fetch for the slug
\* that was not cancelled is in flight (so that the status of a selected slug
\* goes on to "ready" or "error" when the fetch settles).
C27_LoadingOnlyWhileInFlight ==
  \A slug \in DOMAIN productStatusBySlug :
    productStatusBySlug[slug] = "loading" =>
      \E k \in DOMAIN productFetches :
        /\ productFetches[k].slug = slug
        /\ productFetches[k].mounted
        /\ productFetches[k].state = "pending"

\* the pixels of the crop of call i that were marked background before the scans
InPainted(i) == {c \in DOMAIN removals[i].paint.before : removals[i].paint.before[c] = 1}

\* the colorData of the crop of call i before the scans
CropPixel(i, c) ==
  image.data[((c \div removals[i].canvas.cropWidth) + removals[i].canvas.minY) * image.width
               + ((c % removals[i].canvas.cropWidth) + removals[i].canvas.minX) + 1]

\* C28: when a canvas is made (its crop then has a foreground pixel), after
\* the four scans no pixel of the crop is still marked background, the
\* fallback colour is written to no pixel, and every pixel that was marked
\* has alpha 255 and the red, green and blue of a pixel of the crop that was
\* foreground; the foreground pixels are as they were.
C28_NoHoleAfterScans ==
  \A i \in DOMAIN removals :
    removals[i].canvas.kind = "canvas" =>
      LET paint == removals[i].paint
          foreground == DOMAIN paint.before \ InPainted(i)
      IN /\ foreground # {}
         /\ paint.fallback = {}
         /\ \A c \in DOMAIN paint.mask : paint.mask[c] = 0
         /\ \A c \in foreground : paint.data[c] = CropPixel(i, c)
         /\ \A c \in InPainted(i) :
              /\ paint.data[c].alpha = 255
              /\ \E f \in foreground :
                   /\ paint.data[c].red = CropPixel(i, f).red
                   /\ paint.data[c].green = CropPixel(i, f).green
                   /\ paint.data[c].blue = CropPixel(i, f).blue

\* a crop of veined stone with rows and columns wholly marked background was
\* painted: a corner pixel of the crop, marked before, has the colour of a
\* stone pixel whose alpha was below 255
C28_Witness ==
  \E i \in DOMAIN removals :
    /\ removals[i].canvas.kind = "canvas"
    /\ 0 \in InPainted(i)
    /\ \A c \in 0..(removals[i].canvas.cropWidth - 1) : c \in InPainted(i)
    /\ \A c \in InPainted(i) : removals[i].paint.mask[c] = 0
    /\ removals[i].paint.data[0].alpha = 255
    /\ \E f \in DOMAIN removals[i].paint.before \ InPainted(i) :
         /\ CropPixel(i, f).alpha = 200
         /\ removals[i].paint.data[0].red = CropPixel(i, f).red
         /\ removals[i].paint.data[0].green = CropPixel(i, f).green

\* no handler call is in flight
AtRest == \A r \in DOMAIN runners : runners[r].state # "awaiting"

\* no handler call has rejected
NoRejection == \A r \in DOMAIN runners : runners[r].state \in {"awaiting", "returned"}

EveryItemHandled ==
  \A i \in DOMAIN poolItems :
    /\ poolCalls[i] = 1
    /\ poolResults[i] = HandlerResult(poolItems[i], i - 1)

NoPixelTwice ==
  \A a, b \in DOMAIN filling.queue : a # b => filling.queue[a] # filling.queue[b]

\* C30: while the flood fill runs no pixel is in the queue twice, the pixels in
\* it are the visited pixels that were marked background, queueEnd never
\* exceeds width * height, queueStart never exceeds queueEnd, every iteration
\* of the loop moves queueStart up by one over a queue that only grows at its
\* end, and the loop comes to its exit, with the queue used up.
C30_EachPixelEnqueuedOnce ==
  /\ [](fillPhase # "idle" =>
          /\ NoPixelTwice
          /\ Len(filling.queue) <= image.width * image.height
          /\ filling.queueStart <= Len(filling.queue)
          /\ \A index \in DOMAIN filling.visited :
               /\ filling.backgroundMask[index] = 1 => filling.visited[index] = 1
               /\ filling.backgroundMask[index] = 1
                    <=> \E k \in DOMAIN filling.queue : filling.queue[k] = index
          /\ fillPhase = "done" => filling.queueStart = Len(filling.queue))
  /\ [][fillPhase = "looping" /\ fillPhase' = "looping" =>
          /\ filling'.queueStart = filling.queueStart + 1
          /\ Len(filling'.queue) >= Len(filling.queue)
          /\ SubSeq(filling'.queue, 1, Len(filling.queue)) = filling.queue
       ]_vars
  /\ <>(fillPhase = "done")

\* the fill of a 10x10 image ended after it went round an obstacle: the queue
\* holds more pixels than the border has, fewer than the image has, and all of
\* them were taken from it
C30_Witness ==
  /\ fillPhase = "done"
  /\ image.width = 10
  /\ Len(filling.queue) > 36
  /\ Len(filling.queue) < 100
  /\ filling.queueStart = Len(filling.queue)

====
